---- MODULE Spec2Model ----
(***************************************************************************)
(* State-machine model of the Socket.IO server of socketio/src/server:     *)
(* the session table (clients), the rooms index, the sid generator, the    *)
(* engine event loop (recv_event / create_client / handle_connect /        *)
(* insert_clients / drop_client) and the broadcast path (emit_to /         *)
(* sids_to_emit / client).                                                 *)
(*                                                                         *)
(* Strings that the code inspects character by character (engine sids,     *)
(* sids, room names) are sequences of ASCII codes; namespaces, which the   *)
(* code only compares, are TLA+ strings.                                   *)
(***************************************************************************)
EXTENDS Integers, Sequences, FiniteSets, TLC

(***************************************************************************)
(* Bounds of the model.                                                    *)
(***************************************************************************)
\* number of OnOpen events the engine raises
MaxOpens == 2
\* packets a peer may have in flight towards the server
MaxInbox == 1
\* length of the room list handed to join / leave / emit_to
MaxNames == 2
\* EVENT packets the peers send in all
MaxEvents == 1
\* callbacks running at the same time
MaxCallbacks == 1
\* query pairs of a url given to ClientPolling::new
MaxPairs == 2
\* packets and errors handed to the poll tasks in all
MaxPolled == 3
\* broadcasts made one after the other by the handlers
MaxCalls == 2
\* largest max_reconnect_attempts a ClientBuilder is given
MaxAttempts == 1
\* recoverable errors the receive pump of a Client meets
MaxEpisodes == 2
\* connection attempts of a Client that fail, in all
MaxFailures == 2
\* emit calls the user makes on a Client
MaxEmitCalls == 1
\* disconnect calls made, possibly at once, on clones of one Client
MaxDisconnects == 2
\* emit_with_ack calls on one Socket
MaxAcks == 2
\* ACK packets the peer of that Socket sends
MaxAckPackets == 3
\* emit calls on a ServerPolling
MaxFrames == 4
\* frames pushed into the recv channel of a ServerPolling
MaxPushes == 2
\* capacity of the two channels of a ServerPolling
Capacity == 2

(***************************************************************************)
(* Small value sets the inputs are drawn from.                             *)
(***************************************************************************)
\* engine sids "a" and "a-b"
Esids == { <<97>>, <<97, 45, 98>> }
\* room names "r" and "q"
RoomNames == { <<114>>, <<113>> }
\* namespaces a peer may name in CONNECT
Namespaces == { "/admin", "/ghost" }
\* ServerBuilder::on registered callbacks for these namespaces only
on == { "/admin", "/chat" }

Range(s) == { s[i] : i \in DOMAIN s }

Count(s, x) == Cardinality({ i \in DOMAIN s : s[i] = x })

SeqsUpTo(S, n) == UNION { [1..k -> S] : k \in 1..n }

\* room lists handed to join and leave: the listed rooms in one order and
\* without repetition (both loops add or remove the sid room by room, so the
\* outcome is that of the set of listed rooms)
RoomLists ==
    { l \in SeqsUpTo(RoomNames, MaxNames) :
        \A i \in 1..(Len(l) - 1) : l[i][1] > l[i + 1][1] }

(***************************************************************************)
(* base64 (standard alphabet, padded), as base64::encode / base64::decode. *)
(***************************************************************************)
B64Char(i) ==
    IF i < 26 THEN 65 + i
    ELSE IF i < 52 THEN 71 + i
    ELSE IF i < 62 THEN i - 4
    ELSE IF i = 62 THEN 43 ELSE 47

B64Val(c) ==
    IF c >= 65 /\ c <= 90 THEN c - 65
    ELSE IF c >= 97 /\ c <= 122 THEN c - 71
    ELSE IF c >= 48 /\ c <= 57 THEN c + 4
    ELSE IF c = 43 THEN 62 ELSE 63

RECURSIVE B64Encode(_)
B64Encode(b) ==
    IF Len(b) = 0 THEN << >>
    ELSE IF Len(b) = 1 THEN
        << B64Char(b[1] \div 4), B64Char((b[1] % 4) * 16), 61, 61 >>
    ELSE IF Len(b) = 2 THEN
        << B64Char(b[1] \div 4), B64Char((b[1] % 4) * 16 + (b[2] \div 16)),
           B64Char((b[2] % 16) * 4), 61 >>
    ELSE
        << B64Char(b[1] \div 4), B64Char((b[1] % 4) * 16 + (b[2] \div 16)),
           B64Char((b[2] % 16) * 4 + (b[3] \div 64)), B64Char(b[3] % 64) >>
        \o B64Encode(SubSeq(b, 4, Len(b)))

RECURSIVE B64Decode(_)
B64Decode(c) ==
    IF Len(c) < 4 THEN << >>
    ELSE
        LET b1 == B64Val(c[1]) * 4 + (B64Val(c[2]) \div 16)
            b2 == (B64Val(c[2]) % 16) * 16 + (B64Val(c[3]) \div 4)
            b3 == (B64Val(c[3]) % 4) * 64 + B64Val(c[4])
        IN  IF c[3] = 61 THEN << b1 >>
            ELSE IF c[4] = 61 THEN << b1, b2 >>
            ELSE << b1, b2, b3 >> \o B64Decode(SubSeq(c, 5, Len(c)))

\* decimal rendering of a usize, as format!("{}", seq)
RECURSIVE Digits(_)
Digits(n) == IF n < 10 THEN << 48 + n >> ELSE Digits(n \div 10) \o << 48 + (n % 10) >>

(***************************************************************************)
(* SidGenerator.                                                           *)
(***************************************************************************)
\* the counter value left behind by seq.fetch_add(1, SeqCst)
FetchAdd(s) == s + 1

\* base64::encode(format!("{}-{}", engine_sid, seq))
Generate(engine_sid, s) == B64Encode(engine_sid \o << 45 >> \o Digits(s))

\* esid_sid.split('-') ... tokens[0]
FirstToken(s) ==
    LET dashes == { i \in DOMAIN s : s[i] = 45 }
    IN  IF dashes = {} THEN s
        ELSE SubSeq(s, 1, (CHOOSE i \in dashes : \A j \in dashes : i <= j) - 1)

Decode(sid) == FirstToken(B64Decode(sid))

(***************************************************************************)
(* State.                                                                  *)
(***************************************************************************)
VARIABLES
    seq,            \* SidGenerator.seq
    clients,        \* Server.clients : sid -> (namespace -> socket)
    rooms,          \* Server.rooms   : namespace -> (room -> set of sids)
    engine,         \* per engine sid: "new", "open", "lost" (peer gone), "closed"
    event_rx,       \* engine events not yet received by recv_event
    inbox,          \* per engine sid: packets sent by the peer, not yet polled
    outbox,         \* per engine sid: packets the server has sent to the peer
    ev,             \* the recv_event task: where it is and its locals
    sockets,        \* every ServerSocket built so far: [sid, nsp, esid]
    pollers,        \* ServerSocket -> number of running poll tasks on it
    bcast,          \* the emit_to call in progress: its arguments (by, nsp,
                    \* names), the sids left to visit (todo), the emit tasks
                    \* spawned, and, as history, the listed rooms (snap) and
                    \* the sids registered under nsp (snap_reg) when
                    \* sids_to_emit read the rooms index
    opens,          \* OnOpen events raised so far
    generated,      \* history: every result of SidGenerator::generate
    connect_calls,  \* history: [esid, nsp] -> runs of the connect callback
    dropped,        \* history: engine sids whose drop_client has completed
    rejected,       \* history: engine sids whose CONNECT named no event table
    emits,          \* the emit tasks spawned by emit_to and emit_to_with_ack
    hand,           \* the event handler a poll task is running, and its step
    lk,             \* the rooms lock and the clients lock, and the tasks using them
    cp,             \* ClientPolling: the url given to new and the url stored
    tr,             \* ServerPolling: its two channels and the tasks on them
    pl,             \* history of the poll tasks: what poll_packet returned
    cl,             \* the Client: its socket, its receive pump and its backoff
    ledger          \* the ack ledger of a Socket

vars == << seq, clients, rooms, engine, event_rx, inbox, outbox, ev, sockets,
           pollers, bcast, opens, generated, connect_calls, dropped,
           rejected, emits, hand, lk, cp, tr, pl, cl, ledger >>

EmptyMap == [x \in {} |-> {}]

EvIdle == [pc |-> "recv", esid |-> << >>, sid |-> << >>, nsp |-> "", handshake |-> FALSE]

BcastIdle ==
    [pc |-> "idle", by |-> << >>, nsp |-> "", names |-> << >>, todo |-> EmptyMap,
     spawned |-> << >>, snap |-> EmptyMap, snap_reg |-> {}]

Packets ==
    { [ptype |-> "CONNECT", nsp |-> n, data |-> << >>] : n \in Namespaces }
    \cup { [ptype |-> "EVENT", nsp |-> "/admin", data |-> << >>] }

\* Server after construction: no client, no room, nothing generated
ServerInit ==
    /\ seq = 0
    /\ clients = EmptyMap
    /\ rooms = EmptyMap
    /\ engine = [e \in Esids |-> "new"]
    /\ event_rx = << >>
    /\ inbox = [e \in Esids |-> << >>]
    /\ outbox = [e \in Esids |-> << >>]
    /\ ev = EvIdle
    /\ sockets = {}
    /\ pollers = EmptyMap
    /\ bcast = BcastIdle
    /\ opens = 0
    /\ generated = << >>
    /\ connect_calls = [k \in Esids \X on |-> 0]
    /\ dropped = {}
    /\ rejected = {}

\* no handler is running; log is the history of the handlers run so far;
\* timeout, snap and reg are those of the last broadcast: the timeout it was
\* given, the members of the listed room and the sids registered under the
\* namespace when it read them
HandIdle ==
    [pc |-> "idle", sock |-> << >>, kind |-> "", timeout |-> 0, log |-> << >>,
     snap |-> {}, reg |-> {}]

\* the tasks that use the two locks: the recv_event task and the tasks
\* running callbacks
CbTasks == 1..MaxCallbacks

\* the task spawned by recv_event
RecvTask == 0

LkTasks == { RecvTask } \cup CbTasks

\* a task that is in none of the server's functions
TaskIdle == [op |-> "idle", pc |-> "idle"]

\* both locks free (a lock is the set of its guards, << task, mode >>), every
\* task idle
LkIdle == [rooms |-> {}, clients |-> {}, pc |-> [t \in LkTasks |-> TaskIdle]]

\* a url: what precedes the query, and the query as its pairs << key, value >>
NoUrl == [base |-> "", query |-> << >>]

\* no ClientPolling built
CpNone == [input |-> NoUrl, url |-> NoUrl, built |-> FALSE]

\* ServerPolling::new on two empty channels.  send and recv are the frames
\* on the channels; waiters are the emit calls suspended on the send channel;
\* the closed flags say that the other half of a channel is closed.  The
\* rest is history: the emit calls made (calls) and completed (emitted), the
\* frames taken from send, pushed into recv and yielded by next, whether
\* next has returned Pending since its last item (pending) and None (ended)
TrIdle ==
    [send |-> << >>, sendClosed |-> FALSE, waiters |-> << >>, calls |-> 0,
     emitted |-> << >>, taken |-> << >>,
     recv |-> << >>, recvClosed |-> FALSE, pushed |-> << >>, yielded |-> << >>,
     pending |-> FALSE, ended |-> FALSE]

\* no poll task has polled: sent counts what the peers and the transport have
\* handed to the sockets, log is what poll_packet returned, in order
PlIdle == [sent |-> 0, log |-> << >>]

\* no Client built
ClIdle == [pc |-> "none"]

\* a connected Socket that has issued no ack id: next is the counter the
\* ack ids are drawn from, pending the ids of the ledger's entries, wire the
\* ACK packets on their way from the peer.  The rest is history: the
\* payloads every callback was invoked with (calls), the ids of the ACK
\* packets that were dropped, and the ACK packets the peer has sent
AckIdle ==
    [next |-> 0, up |-> TRUE, pending |-> {}, wire |-> << >>,
     calls |-> [i \in 0..MaxAcks |-> << >>], dropped |-> {}, acks_sent |-> 0]

Init ==
    /\ ServerInit
    /\ emits = << >>
    /\ hand = HandIdle
    /\ lk = LkIdle
    /\ cp = CpNone
    /\ tr = TrIdle
    /\ pl = PlIdle
    /\ cl = ClIdle
    /\ ledger = AckIdle

(***************************************************************************)
(* Server helpers.                                                         *)
(***************************************************************************)
\* a lookup that finds a socket for every name
AnyClient(sid, nsp) == TRUE

\* a lookup that finds the socket of sid whatever its namespace
ClientOfAnyNsp(sid, nsp) == sid \in DOMAIN clients

\* Server::client : the socket registered for sid under nsp, if any
HasClient(sid, nsp) == sid \in DOMAIN clients /\ nsp \in DOMAIN clients[sid]

\* Server::polling_transport_info : every (sid, nsp) the loop over
\* clients.keys() may return first; the empty set stands for None
PollingTransportInfo(esid) ==
    { info \in (DOMAIN clients) \X (Namespaces \cup on) :
        Decode(info[1]) = esid /\ info[2] \in DOMAIN clients[info[1]] }

\* engine_server.socket(&esid) is Some
EngineSocket(esid) == engine[esid] \in { "open", "lost" }

\* entry of Server::insert_clients up to the start of the connect callback
InsertClientsStart(esid, nsp, sid, handshake) ==
    IF nsp \in on
    THEN /\ sockets' = sockets \cup { [sid |-> sid, nsp |-> nsp, esid |-> esid] }
         /\ connect_calls' = [connect_calls EXCEPT ![<< esid, nsp >>] = @ + 1]
         /\ ev' = [pc |-> "connect_callback", esid |-> esid, sid |-> sid,
                   nsp |-> nsp, handshake |-> handshake]
         /\ UNCHANGED rejected
    ELSE /\ ev' = EvIdle
         /\ rejected' = rejected \cup { esid }
         /\ UNCHANGED << sockets, connect_calls >>

(***************************************************************************)
(* The recv_event task.                                                    *)
(***************************************************************************)
\* OnOpen(esid), create_client: the session already has a registered sid
RecvOnOpenKnown ==
    /\ ev.pc = "recv" /\ event_rx # << >> /\ Head(event_rx).type = "OnOpen"
    /\ EngineSocket(Head(event_rx).esid)
    /\ \E info \in PollingTransportInfo(Head(event_rx).esid) :
           InsertClientsStart(Head(event_rx).esid, info[2], info[1], FALSE)
    /\ event_rx' = Tail(event_rx)
    /\ UNCHANGED << seq, clients, rooms, engine, inbox, outbox, pollers, bcast,
                    opens, generated, dropped,
                    emits, hand, lk, cp, tr, pl, cl, ledger >>

\* OnOpen(esid), create_client -> handle_connect: a sid is minted, then the
\* task waits for the peer's CONNECT
RecvOnOpenNew ==
    /\ ev.pc = "recv" /\ event_rx # << >> /\ Head(event_rx).type = "OnOpen"
    /\ EngineSocket(Head(event_rx).esid)
    /\ PollingTransportInfo(Head(event_rx).esid) = {}
    /\ LET e == Head(event_rx).esid
           sid == Generate(e, seq)
       IN  /\ seq' = FetchAdd(seq)
           /\ generated' = Append(generated, [sid |-> sid, esid |-> e])
           /\ ev' = [pc |-> "handle_connect", esid |-> e, sid |-> sid,
                     nsp |-> "", handshake |-> TRUE]
    /\ event_rx' = Tail(event_rx)
    /\ UNCHANGED << clients, rooms, engine, inbox, outbox, sockets, pollers, bcast,
                    opens, connect_calls, dropped, rejected,
                    emits, hand, lk, cp, tr, pl, cl, ledger >>

\* OnOpen(esid), create_client: the engine has no socket for esid any more
RecvOnOpenGone ==
    /\ ev.pc = "recv" /\ event_rx # << >> /\ Head(event_rx).type = "OnOpen"
    /\ ~EngineSocket(Head(event_rx).esid)
    /\ event_rx' = Tail(event_rx)
    /\ UNCHANGED << seq, clients, rooms, engine, inbox, outbox, ev, sockets, pollers,
                    bcast, opens, generated, connect_calls, dropped, rejected,
                    emits, hand, lk, cp, tr, pl, cl, ledger >>

\* handle_connect: a packet other than CONNECT is skipped
HandleConnectSkip ==
    /\ ev.pc = "handle_connect" /\ inbox[ev.esid] # << >>
    /\ Head(inbox[ev.esid]).ptype # "CONNECT"
    /\ inbox' = [inbox EXCEPT ![ev.esid] = Tail(@)]
    /\ UNCHANGED << seq, clients, rooms, engine, event_rx, outbox, ev, sockets,
                    pollers, bcast, opens, generated, connect_calls, dropped,
                    rejected,
                    emits, hand, lk, cp, tr, pl, cl, ledger >>

\* handle_connect: the first CONNECT packet names the namespace
HandleConnectConnect ==
    /\ ev.pc = "handle_connect" /\ inbox[ev.esid] # << >>
    /\ Head(inbox[ev.esid]).ptype = "CONNECT"
    /\ InsertClientsStart(ev.esid, Head(inbox[ev.esid]).nsp, ev.sid, TRUE)
    /\ inbox' = [inbox EXCEPT ![ev.esid] = Tail(@)]
    /\ UNCHANGED << seq, clients, rooms, engine, event_rx, outbox, pollers, bcast,
                    opens, generated, dropped,
                    emits, hand, lk, cp, tr, pl, cl, ledger >>

\* handle_connect: poll_packet yields None or an error, the loop ends
HandleConnectEnd ==
    /\ ev.pc = "handle_connect" /\ inbox[ev.esid] = << >>
    /\ engine[ev.esid] \in { "lost", "closed" }
    /\ ev' = EvIdle
    /\ UNCHANGED << seq, clients, rooms, engine, event_rx, inbox, outbox, sockets,
                    pollers, bcast, opens, generated, connect_calls, dropped,
                    rejected,
                    emits, hand, lk, cp, tr, pl, cl, ledger >>

\* insert_clients: the connect callback has returned; poll(client) spawns
\* the receive task and the handshake reply is sent when asked for
ConnectCallbackReturn ==
    /\ ev.pc = "connect_callback"
    /\ LET client == [sid |-> ev.sid, nsp |-> ev.nsp, esid |-> ev.esid]
       IN  pollers' = IF client \in DOMAIN pollers
                      THEN [pollers EXCEPT ![client] = @ + 1]
                      ELSE (client :> 1) @@ pollers
    /\ outbox' = IF ev.handshake /\ engine[ev.esid] = "open"
                 THEN [outbox EXCEPT ![ev.esid] =
                          Append(@, [ptype |-> "CONNECT", nsp |-> ev.nsp, data |-> ev.sid])]
                 ELSE outbox
    /\ ev' = [ev EXCEPT !.pc = "register"]
    /\ UNCHANGED << seq, clients, rooms, engine, event_rx, inbox, sockets, bcast,
                    opens, generated, connect_calls, dropped, rejected,
                    emits, hand, lk, cp, tr, pl, cl, ledger >>

\* insert_clients: clients.insert(sid, {nsp: client})
Register ==
    /\ ev.pc = "register"
    /\ clients' = (ev.sid :> (ev.nsp :> [sid |-> ev.sid, nsp |-> ev.nsp, esid |-> ev.esid]))
                   @@ clients
    /\ ev' = EvIdle
    /\ UNCHANGED << seq, rooms, engine, event_rx, inbox, outbox, sockets, pollers,
                    bcast, opens, generated, connect_calls, dropped, rejected,
                    emits, hand, lk, cp, tr, pl, cl, ledger >>

\* OnClose(esid), drop_client: close_socket, then clients.remove(esid)
RecvOnClose ==
    /\ ev.pc = "recv" /\ event_rx # << >> /\ Head(event_rx).type = "OnClose"
    /\ LET e == Head(event_rx).esid
       IN  /\ engine' = [engine EXCEPT ![e] = "closed"]
           /\ clients' = [s \in DOMAIN clients \ { e } |-> clients[s]]
           /\ ev' = [EvIdle EXCEPT !.pc = "drop_rooms", !.esid = e]
    /\ event_rx' = Tail(event_rx)
    /\ UNCHANGED << seq, rooms, inbox, outbox, sockets, pollers, bcast, opens,
                    generated, connect_calls, dropped, rejected,
                    emits, hand, lk, cp, tr, pl, cl, ledger >>

\* drop_client: retain in every room the sids that do not decode to esid
DropClientRooms ==
    /\ ev.pc = "drop_rooms"
    /\ rooms' = [n \in DOMAIN rooms |->
                    [r \in DOMAIN rooms[n] |->
                        { s \in rooms[n][r] : Decode(s) # ev.esid }]]
    /\ dropped' = dropped \cup { ev.esid }
    /\ ev' = EvIdle
    /\ UNCHANGED << seq, clients, engine, event_rx, inbox, outbox, sockets, pollers,
                    bcast, opens, generated, connect_calls, rejected,
                    emits, hand, lk, cp, tr, pl, cl, ledger >>

(***************************************************************************)
(* Rooms: join, leave.  Both run under the rooms write lock, so each is    *)
(* one step.                                                               *)
(***************************************************************************)
\* the room's set replaced by a new one holding sid, as for a new room
JoinOneReplace(rms, nsp, room_name, sid) ==
    IF nsp \notin DOMAIN rms
    THEN (nsp :> (room_name :> { sid })) @@ rms
    ELSE [rms EXCEPT ![nsp] = (room_name :> { sid }) @@ @]

\* one iteration of the loop of Server::join
JoinOne(rms, nsp, room_name, sid) ==
    IF nsp \notin DOMAIN rms
    THEN (nsp :> (room_name :> { sid })) @@ rms
    ELSE IF room_name \in DOMAIN rms[nsp]
         THEN [rms EXCEPT ![nsp][room_name] = @ \cup { sid }]
         ELSE [rms EXCEPT ![nsp] = (room_name :> { sid }) @@ @]

RECURSIVE JoinRooms(_, _, _, _)
JoinRooms(rms, nsp, names, sid) ==
    IF names = << >> THEN rms
    ELSE JoinRooms(JoinOne(rms, nsp, Head(names), sid), nsp, Tail(names), sid)

\* a room removed from the index when its last member leaves
LeaveOneCleanup(rms, nsp, room_name, sid) ==
    IF nsp \in DOMAIN rms /\ room_name \in DOMAIN rms[nsp]
    THEN IF rms[nsp][room_name] \subseteq { sid }
         THEN [rms EXCEPT ![nsp] = [r \in DOMAIN @ \ { room_name } |-> @[r]]]
         ELSE [rms EXCEPT ![nsp][room_name] = @ \ { sid }]
    ELSE rms

\* one iteration of the loop of Server::leave
LeaveOne(rms, nsp, room_name, sid) ==
    IF nsp \in DOMAIN rms /\ room_name \in DOMAIN rms[nsp]
    THEN [rms EXCEPT ![nsp][room_name] = @ \ { sid }]
    ELSE rms

RECURSIVE LeaveRooms(_, _, _, _)
LeaveRooms(rms, nsp, names, sid) ==
    IF names = << >> THEN rms
    ELSE LeaveRooms(LeaveOne(rms, nsp, Head(names), sid), nsp, Tail(names), sid)

\* a callback holding the handle of socket h calls socket.join(names)
Join(h, names) ==
    /\ h \in sockets
    /\ rooms' = JoinRooms(rooms, h.nsp, names, h.sid)
    /\ rooms' # rooms
    /\ UNCHANGED << seq, clients, engine, event_rx, inbox, outbox, ev, sockets,
                    pollers, bcast, opens, generated, connect_calls, dropped,
                    rejected,
                    emits, hand, lk, cp, tr, pl, cl, ledger >>

\* a callback holding the handle of socket h calls socket.leave(names)
Leave(h, names) ==
    /\ h \in sockets
    /\ rooms' = LeaveRooms(rooms, h.nsp, names, h.sid)
    /\ rooms' # rooms
    /\ UNCHANGED << seq, clients, engine, event_rx, inbox, outbox, ev, sockets,
                    pollers, bcast, opens, generated, connect_calls, dropped,
                    rejected,
                    emits, hand, lk, cp, tr, pl, cl, ledger >>

(***************************************************************************)
(* Broadcast: emit_to, sids_to_emit.  The set of sids is a map sid ->      *)
(* number of times the loop of emit_to will visit it.                      *)
(***************************************************************************)
\* a Vec in place of the HashSet: every insert adds an element
VecPush(set, sid) ==
    IF sid \in DOMAIN set THEN [set EXCEPT ![sid] = @ + 1] ELSE (sid :> 1) @@ set

\* HashSet::insert
HashSetInsert(set, sid) ==
    IF sid \in DOMAIN set THEN set ELSE (sid :> 1) @@ set

\* for sid in room { sids_to_emit.insert(sid.clone()) }
RECURSIVE InsertRoom(_, _)
InsertRoom(set, room) ==
    IF room = {} THEN set
    ELSE LET sid == CHOOSE s \in room : TRUE
         IN  InsertRoom(HashSetInsert(set, sid), room \ { sid })

\* for room_name in rooms { match room_clients.get(room_name) ... }
RECURSIVE SidsLoop(_, _, _)
SidsLoop(set, room_clients, names) ==
    IF names = << >> THEN set
    ELSE SidsLoop(IF Head(names) \in DOMAIN room_clients
                  THEN InsertRoom(set, room_clients[Head(names)])
                  ELSE HashSetInsert(set, Head(names)),
                  room_clients, Tail(names))

\* Server::sids_to_emit, under the rooms read lock
SidsToEmit(rms, nsp, names) ==
    IF nsp \in DOMAIN rms THEN SidsLoop(EmptyMap, rms[nsp], names) ELSE EmptyMap

\* one element taken out of the set being iterated
TakeOne(set, sid) ==
    IF set[sid] = 1 THEN [s \in DOMAIN set \ { sid } |-> set[s]]
    ELSE [set EXCEPT ![sid] = @ - 1]

\* names a callback may list: room names and the sids of the sockets it knows
NamePool == RoomNames \cup { h.sid : h \in sockets }

\* a callback holding the handle of socket h calls socket.emit_to(names, ..):
\* Client::emit_to passes its own namespace; sids_to_emit takes the snapshot
EmitToCall(h, names) ==
    /\ h \in sockets
    /\ bcast.pc = "idle"
    /\ LET nsp == h.nsp
           known == { r \in Range(names) :
                        nsp \in DOMAIN rooms /\ r \in DOMAIN rooms[nsp] }
       IN  bcast' = [pc |-> "loop", by |-> h.sid, nsp |-> nsp, names |-> names,
                     todo |-> SidsToEmit(rooms, nsp, names),
                     spawned |-> << >>,
                     snap |-> [r \in known |-> rooms[nsp][r]],
                     snap_reg |-> { s \in DOMAIN clients : nsp \in DOMAIN clients[s] }]
    /\ UNCHANGED << seq, clients, rooms, engine, event_rx, inbox, outbox, ev,
                    sockets, pollers, opens, generated, connect_calls, dropped,
                    rejected,
                    emits, hand, lk, cp, tr, pl, cl, ledger >>

\* emit_to: self.client(&sid, nsp) is Some, the emit task is spawned
EmitToSpawn ==
    /\ bcast.pc = "loop"
    /\ \E sid \in DOMAIN bcast.todo :
          /\ HasClient(sid, bcast.nsp)
          /\ bcast' = [bcast EXCEPT !.todo = TakeOne(@, sid),
                                    !.spawned = Append(@, sid)]
    /\ UNCHANGED << seq, clients, rooms, engine, event_rx, inbox, outbox, ev,
                    sockets, pollers, opens, generated, connect_calls, dropped,
                    rejected,
                    emits, hand, lk, cp, tr, pl, cl, ledger >>

\* emit_to: self.client(&sid, nsp) is None, nothing is spawned for sid
EmitToSkip ==
    /\ bcast.pc = "loop"
    /\ \E sid \in DOMAIN bcast.todo :
          /\ ~HasClient(sid, bcast.nsp)
          /\ bcast' = [bcast EXCEPT !.todo = TakeOne(@, sid)]
    /\ UNCHANGED << seq, clients, rooms, engine, event_rx, inbox, outbox, ev,
                    sockets, pollers, opens, generated, connect_calls, dropped,
                    rejected,
                    emits, hand, lk, cp, tr, pl, cl, ledger >>

\* emit_to: the loop is over, the call returns
EmitToReturn ==
    /\ bcast.pc = "loop"
    /\ DOMAIN bcast.todo = {}
    /\ bcast' = BcastIdle
    /\ UNCHANGED << seq, clients, rooms, engine, event_rx, inbox, outbox, ev,
                    sockets, pollers, opens, generated, connect_calls, dropped,
                    rejected,
                    emits, hand, lk, cp, tr, pl, cl, ledger >>

(***************************************************************************)
(* The engine and the peers: events raised, packets sent.                  *)
(***************************************************************************)
\* a new engine session opens
EngineOpen(e) ==
    /\ engine[e] = "new" /\ opens < MaxOpens
    /\ engine' = [engine EXCEPT ![e] = "open"]
    /\ event_rx' = Append(event_rx, [type |-> "OnOpen", esid |-> e])
    /\ opens' = opens + 1
    /\ UNCHANGED << seq, clients, rooms, inbox, outbox, ev, sockets, pollers, bcast,
                    generated, connect_calls, dropped, rejected,
                    emits, hand, lk, cp, tr, pl, cl, ledger >>

\* OnOpen is raised again for a session that is already open
EngineReopen(e) ==
    /\ engine[e] \in { "open", "lost" } /\ opens < MaxOpens
    /\ event_rx' = Append(event_rx, [type |-> "OnOpen", esid |-> e])
    /\ opens' = opens + 1
    /\ UNCHANGED << seq, clients, rooms, engine, inbox, outbox, ev, sockets, pollers,
                    bcast, generated, connect_calls, dropped, rejected,
                    emits, hand, lk, cp, tr, pl, cl, ledger >>

\* the session's transport is gone: OnClose is raised
EngineClose(e) ==
    /\ engine[e] = "open"
    /\ engine' = [engine EXCEPT ![e] = "lost"]
    /\ event_rx' = Append(event_rx, [type |-> "OnClose", esid |-> e])
    /\ UNCHANGED << seq, clients, rooms, inbox, outbox, ev, sockets, pollers, bcast,
                    opens, generated, connect_calls, dropped, rejected,
                    emits, hand, lk, cp, tr, pl, cl, ledger >>

\* the peer of an open session sends a packet
PeerSend(e, p) ==
    /\ engine[e] = "open" /\ Len(inbox[e]) < MaxInbox
    /\ inbox' = [inbox EXCEPT ![e] = Append(@, p)]
    /\ UNCHANGED << seq, clients, rooms, engine, event_rx, outbox, ev, sockets,
                    pollers, bcast, opens, generated, connect_calls, dropped,
                    rejected,
                    emits, hand, lk, cp, tr, pl, cl, ledger >>

(***************************************************************************)
(* The receive task spawned by poll(client).                               *)
(***************************************************************************)
\* poll_packet yields Some(..): the loop goes on
PollPacket(s) ==
    /\ s \in DOMAIN pollers /\ pollers[s] > 0
    /\ inbox[s.esid] # << >>
    /\ inbox' = [inbox EXCEPT ![s.esid] = Tail(@)]
    /\ UNCHANGED << seq, clients, rooms, engine, event_rx, outbox, ev, sockets,
                    pollers, bcast, opens, generated, connect_calls, dropped,
                    rejected,
                    emits, hand, lk, cp, tr, pl, cl, ledger >>

\* poll_packet yields None: break
PollEnd(s) ==
    /\ s \in DOMAIN pollers /\ pollers[s] > 0
    /\ inbox[s.esid] = << >>
    /\ engine[s.esid] \in { "lost", "closed" }
    /\ pollers' = [pollers EXCEPT ![s] = @ - 1]
    /\ UNCHANGED << seq, clients, rooms, engine, event_rx, inbox, outbox, ev,
                    sockets, bcast, opens, generated, connect_calls, dropped,
                    rejected,
                    emits, hand, lk, cp, tr, pl, cl, ledger >>

Next ==
    \/ RecvOnOpenKnown
    \/ RecvOnOpenNew
    \/ RecvOnOpenGone
    \/ HandleConnectSkip
    \/ HandleConnectConnect
    \/ HandleConnectEnd
    \/ ConnectCallbackReturn
    \/ Register
    \/ RecvOnClose
    \/ DropClientRooms
    \/ \E h \in sockets, names \in RoomLists : Join(h, names)
    \/ \E h \in sockets, names \in RoomLists : Leave(h, names)
    \/ \E e \in Esids : EngineOpen(e)
    \/ \E e \in Esids : EngineReopen(e)
    \/ \E e \in Esids : EngineClose(e)
    \/ \E e \in Esids, p \in Packets : PeerSend(e, p)
    \/ \E s \in DOMAIN pollers : PollPacket(s)
    \/ \E s \in DOMAIN pollers : PollEnd(s)

\* Acceptance, teardown and rooms, with every engine event and peer packet.
\* emit_to writes none of the variables these actions read, so it is left to
\* SpecBroadcast.
Spec == Init /\ [][Next]_vars

\* the steps of the one task recv_event spawns: it takes the engine events
\* one after the other and awaits create_client / drop_client for each
RecvEventTask ==
    \/ RecvOnOpenKnown
    \/ RecvOnOpenNew
    \/ RecvOnOpenGone
    \/ HandleConnectSkip
    \/ HandleConnectConnect
    \/ HandleConnectEnd
    \/ ConnectCallbackReturn
    \/ Register
    \/ RecvOnClose
    \/ DropClientRooms

\* Spec with a scheduler that runs the recv_event task whenever it can take a
\* step (a connect callback returns, as those of the tests do); the engine
\* and the peers are free to do nothing.
SpecAcceptFair == Spec /\ WF_vars(RecvEventTask)

ConnectAdmin == [ptype |-> "CONNECT", nsp |-> "/admin", data |-> << >>]

\* the peer of a session the server has built no socket for sends its
\* CONNECT for the registered namespace
PeerConnect(e) ==
    /\ \A h \in sockets : h.esid # e
    /\ inbox[e] = << >>
    /\ PeerSend(e, ConnectAdmin)

\* the peer of a session the server has built no socket for sends its
\* CONNECT for one of the registered namespaces
PeerConnectTo(e, nsp) ==
    /\ \A h \in sockets : h.esid # e
    /\ inbox[e] = << >>
    /\ PeerSend(e, [ptype |-> "CONNECT", nsp |-> nsp, data |-> << >>])

NextBroadcast ==
    \/ RecvOnOpenKnown
    \/ RecvOnOpenNew
    \/ HandleConnectConnect
    \/ ConnectCallbackReturn
    \/ Register
    \/ \E h \in sockets, names \in RoomLists : Join(h, names)
    \/ \E h \in sockets, names \in RoomLists : Leave(h, names)
    \/ \E h \in sockets, names \in SeqsUpTo(NamePool, MaxNames) : EmitToCall(h, names)
    \/ EmitToSpawn
    \/ EmitToSkip
    \/ EmitToReturn
    \/ \E e \in Esids : EngineOpen(e)
    \/ \E e \in Esids : PeerConnect(e)

\* Broadcast next to acceptance and rooms: every peer sends CONNECT for the
\* registered namespace, and no session is closed (drop_client leaves clients
\* as it is and acts on rooms as leave does).
SpecBroadcast == Init /\ [][NextBroadcast]_vars

(***************************************************************************)
(* The receive task of poll(client) with the errors of poll_packet: an     *)
(* entry of the inbox is what poll_packet returns next, a packet or an     *)
(* error of the transport.                                                 *)
(***************************************************************************)
PollErrors ==
    { [ptype |-> e, nsp |-> "", data |-> << >>] :
        e \in { "IncompleteResponseFromEngineIo", "InvalidPacket" } }

\* what socket.poll_packet() returns for the session: the head of its inbox,
\* None once the session is gone and nothing is left, and nothing yet
\* otherwise
PollPacketResult(e) ==
    IF inbox[e] # << >> THEN Head(inbox[e]).ptype
    ELSE IF engine[e] \in { "lost", "closed" } THEN "None"
    ELSE "Pending"

\* the loop left on every error as well
AfterPollBreakOnError(n, next) ==
    IF next \in { "None", "IncompleteResponseFromEngineIo", "InvalidPacket" }
    THEN n - 1 ELSE n

\* match next: an error is traced or ignored, a packet ignored, None breaks
\* the loop; n is the number of poll tasks running on the socket
AfterPoll(n, next) == IF next = "None" THEN n - 1 ELSE n

\* a peer's packet or a transport error reaches a socket the server has built
PollFeed(e, item) ==
    /\ engine[e] = "open" /\ Len(inbox[e]) < MaxInbox
    /\ \E h \in sockets : h.esid = e
    /\ pl.sent < MaxPolled
    /\ inbox' = [inbox EXCEPT ![e] = Append(@, item)]
    /\ pl' = [pl EXCEPT !.sent = @ + 1]
    /\ UNCHANGED << seq, clients, rooms, engine, event_rx, outbox, ev, sockets,
                    pollers, bcast, opens, generated, connect_calls, dropped,
                    rejected, emits, hand, lk, cp, tr, cl, ledger >>

\* one turn of the loop of poll(socket)
PollLoop(s) ==
    /\ s \in DOMAIN pollers /\ pollers[s] > 0
    /\ PollPacketResult(s.esid) # "Pending"
    /\ inbox' = [inbox EXCEPT ![s.esid] = IF @ = << >> THEN @ ELSE Tail(@)]
    /\ pollers' = [pollers EXCEPT ![s] = AfterPoll(@, PollPacketResult(s.esid))]
    /\ pl' = [pl EXCEPT !.log = Append(@, [sock |-> s, next |-> PollPacketResult(s.esid)])]
    /\ UNCHANGED << seq, clients, rooms, engine, event_rx, outbox, ev, sockets,
                    bcast, opens, generated, connect_calls, dropped,
                    rejected, emits, hand, lk, cp, tr, cl, ledger >>

NextPoll ==
    \/ RecvOnOpenNew
    \/ HandleConnectConnect
    \/ ConnectCallbackReturn
    \/ Register
    \/ RecvOnClose
    \/ DropClientRooms
    \/ \E e \in Esids : EngineOpen(e)
    \/ \E e \in Esids : EngineClose(e)
    \/ \E e \in Esids : PeerConnect(e)
    \/ \E e \in Esids, item \in (Packets \ { ConnectAdmin }) \cup PollErrors : PollFeed(e, item)
    \/ \E s \in DOMAIN pollers : PollLoop(s)

\* Accepted sessions, their poll tasks, and packets and errors for them.
SpecPoll == Init /\ [][NextPoll]_vars

(***************************************************************************)
(* Event handlers and the emit tasks of a broadcast.  The handlers are     *)
(* those of the tests' setup(): echo (join, emit_to, leave) and            *)
(* trigger_server_ack (join, emit_to_with_ack, leave).  A handler runs in  *)
(* the poll task of its socket; each of its awaited calls is one step.     *)
(***************************************************************************)
Handlers == { "echo", "trigger_server_ack" }

Timeouts == { 200, 400 }

\* the room a handler joins, lists and leaves
HandlerRoom == << 114 >>

EventPackets == { [ptype |-> "EVENT", nsp |-> "/admin", data |-> k] : k \in Handlers }

\* EVENT packets sent and not yet dispatched
EventsInFlight ==
    Cardinality({ e \in Esids : inbox[e] # << >> /\ Head(inbox[e]).ptype = "EVENT" })

\* the peer of a session whose socket the server has built emits an event
PeerEvent(e, p) ==
    /\ p \in EventPackets
    /\ \E h \in sockets : h.esid = e
    /\ Len(hand.log) + EventsInFlight < MaxEvents
    /\ PeerSend(e, p)

\* poll: socket.poll_packet() takes an EVENT and runs the callback registered
\* for it
PollEvent(s) ==
    /\ s \in DOMAIN pollers /\ pollers[s] > 0
    /\ hand.pc = "idle"
    /\ inbox[s.esid] # << >> /\ Head(inbox[s.esid]).ptype = "EVENT"
    /\ inbox' = [inbox EXCEPT ![s.esid] = Tail(@)]
    /\ hand' = [hand EXCEPT !.pc = "join", !.sock = s,
                             !.kind = Head(inbox[s.esid]).data,
                             !.log = Append(@, [sock |-> s,
                                                kind |-> Head(inbox[s.esid]).data])]
    /\ UNCHANGED << seq, clients, rooms, engine, event_rx, outbox, ev, sockets,
                    pollers, bcast, opens, generated, connect_calls, dropped,
                    rejected, emits, lk, cp, tr, pl, cl, ledger >>

\* socket.join(vec![room]).await
HandlerJoin ==
    /\ hand.pc = "join"
    /\ rooms' = JoinRooms(rooms, hand.sock.nsp, << HandlerRoom >>, hand.sock.sid)
    /\ hand' = [hand EXCEPT !.pc = "emit"]
    /\ UNCHANGED << seq, clients, engine, event_rx, inbox, outbox, ev, sockets,
                    pollers, bcast, opens, generated, connect_calls, dropped,
                    rejected, emits, lk, cp, tr, pl, cl, ledger >>

\* the orders in which `for sid in sids_to_emit` may visit the set
RECURSIVE VisitOrders(_)
VisitOrders(set) ==
    IF DOMAIN set = {} THEN { << >> }
    ELSE UNION { { << sid >> \o o : o \in VisitOrders(TakeOne(set, sid)) } :
                 sid \in DOMAIN set }

\* the emit awaited in the loop instead of spawned: the loop does not get
\* past a recipient whose emit has not completed
SpawnThenStop(tasks, sid, nsp, call, ack, timeout) ==
    IF HasClient(sid, nsp) /\ tasks = << >>
    THEN << [call |-> call, sock |-> clients[sid][nsp], ack |-> ack,
             timeout |-> timeout, cb |-> 1, st |-> "spawned", id |-> -1] >>
    ELSE tasks

\* the callback moved into the first task instead of cloned for each
SpawnSharedCallback(tasks, sid, nsp, call, ack, timeout) ==
    IF HasClient(sid, nsp)
    THEN Append(tasks, [call |-> call, sock |-> clients[sid][nsp], ack |-> ack,
                        timeout |-> timeout, cb |-> 1, st |-> "spawned", id |-> -1])
    ELSE tasks

\* the emit task of one visited sid: tokio::spawn(async move { client.emit(..) })
\* when self.client(&sid, nsp) is Some, nothing otherwise
SpawnOne(tasks, sid, nsp, call, ack, timeout) ==
    IF HasClient(sid, nsp)
    THEN Append(tasks, [call |-> call, sock |-> clients[sid][nsp], ack |-> ack,
                        timeout |-> timeout, cb |-> Len(tasks) + 1,
                        st |-> "spawned", id |-> -1])
    ELSE tasks

\* the body of the loop, over the sids in the order visited
RECURSIVE SpawnAll(_, _, _, _, _, _)
SpawnAll(tasks, order, nsp, call, ack, timeout) ==
    IF order = << >> THEN tasks
    ELSE SpawnAll(SpawnOne(tasks, Head(order), nsp, call, ack, timeout),
                  Tail(order), nsp, call, ack, timeout)

\* the members of room under nsp, none when there is no such room
RoomMembers(nsp, room) ==
    IF nsp \in DOMAIN rooms /\ room \in DOMAIN rooms[nsp] THEN rooms[nsp][room] ELSE {}

\* Server::emit_to / Server::emit_to_with_ack called by the running handler:
\* the snapshot of sids_to_emit, then one task per visited sid with a client
Broadcast(ack, timeout) ==
    /\ hand.pc = "emit"
    /\ LET nsp == hand.sock.nsp
           names == << HandlerRoom >>
       IN  /\ \E order \in VisitOrders(SidsToEmit(rooms, nsp, names)) :
                 emits' = emits \o SpawnAll(<< >>, order, nsp, Len(hand.log), ack,
                                            timeout)
           /\ hand' = [hand EXCEPT !.pc = "leave",
                                   !.timeout = timeout,
                                   !.snap = RoomMembers(nsp, names[1]),
                                   !.reg = { s \in DOMAIN clients : nsp \in DOMAIN clients[s] }]
    /\ UNCHANGED << seq, clients, rooms, engine, event_rx, inbox, outbox, ev,
                    sockets, pollers, bcast, opens, generated, connect_calls,
                    dropped, rejected, lk, cp, tr, pl, cl, ledger >>

\* socket.emit_to(vec![room], "echo", ..).await
HandlerEmitTo == hand.kind = "echo" /\ Broadcast(FALSE, 0)

\* socket.emit_to_with_ack(vec![room], "server_ask_ack", .., timeout, cb).await
HandlerEmitToWithAck(timeout) ==
    hand.kind = "trigger_server_ack" /\ Broadcast(TRUE, timeout)

\* socket.leave(vec![room]).await, the last statement of the handler
HandlerLeave ==
    /\ hand.pc = "leave"
    /\ rooms' = LeaveRooms(rooms, hand.sock.nsp, << HandlerRoom >>, hand.sock.sid)
    /\ hand' = [hand EXCEPT !.pc = "idle"]
    /\ UNCHANGED << seq, clients, engine, event_rx, inbox, outbox, ev, sockets,
                    pollers, bcast, opens, generated, connect_calls, dropped,
                    rejected, emits, lk, cp, tr, pl, cl, ledger >>

\* the next ack id of a socket: its counter of ids issued
NextAckId(sock) ==
    Cardinality({ j \in DOMAIN emits : emits[j].sock = sock /\ emits[j].id >= 0 })

\* a spawned task runs client.emit / client.emit_with_ack and the packet
\* leaves: with an ack, it carries the socket's next ack id
EmitTaskOk(i) ==
    /\ i \in DOMAIN emits /\ emits[i].st = "spawned"
    /\ engine[emits[i].sock.esid] = "open"
    /\ LET id == IF emits[i].ack THEN NextAckId(emits[i].sock) ELSE -1
       IN  /\ emits' = [emits EXCEPT ![i].st = "ok", ![i].id = id]
           /\ outbox' = [outbox EXCEPT ![emits[i].sock.esid] =
                            Append(@, [ptype |-> "EVENT", nsp |-> emits[i].sock.nsp,
                                       data |-> emits[i].call, id |-> id])]
    /\ UNCHANGED << seq, clients, rooms, engine, event_rx, inbox, ev, sockets,
                    pollers, bcast, opens, generated, connect_calls, dropped,
                    rejected, hand, lk, cp, tr, pl, cl, ledger >>

\* the emit of a spawned task fails: the error is logged, nothing else
EmitTaskErr(i) ==
    /\ i \in DOMAIN emits /\ emits[i].st = "spawned"
    /\ engine[emits[i].sock.esid] # "open"
    /\ emits' = [emits EXCEPT ![i].st = "err"]
    /\ UNCHANGED << seq, clients, rooms, engine, event_rx, inbox, outbox, ev,
                    sockets, pollers, bcast, opens, generated, connect_calls,
                    dropped, rejected, hand, lk, cp, tr, pl, cl, ledger >>

NextHandlers ==
    \/ RecvOnOpenKnown
    \/ RecvOnOpenNew
    \/ HandleConnectConnect
    \/ ConnectCallbackReturn
    \/ Register
    \/ RecvOnClose
    \/ DropClientRooms
    \/ \E e \in Esids : EngineOpen(e)
    \/ \E e \in Esids : EngineClose(e)
    \/ \E e \in Esids : PeerConnect(e)
    \/ \E h \in sockets : Join(h, << HandlerRoom >>)
    \/ \E e \in Esids, p \in EventPackets : PeerEvent(e, p)
    \/ \E s \in DOMAIN pollers : PollEvent(s)
    \/ HandlerJoin
    \/ HandlerEmitTo
    \/ \E timeout \in Timeouts : HandlerEmitToWithAck(timeout)
    \/ HandlerLeave
    \/ \E i \in DOMAIN emits : EmitTaskOk(i)
    \/ \E i \in DOMAIN emits : EmitTaskErr(i)

\* Acceptance and teardown with the handlers of setup() run on the peers'
\* events, the emit tasks their broadcasts spawn, and other callbacks joining
\* the handlers' rooms.
SpecHandlers == Init /\ [][NextHandlers]_vars

\* the peer emits another event, up to MaxCalls in all
PeerEventAgain(e, p) ==
    /\ p \in EventPackets
    /\ \E h \in sockets : h.esid = e
    /\ Len(hand.log) + EventsInFlight < MaxCalls
    /\ PeerSend(e, p)

NextOrder ==
    \/ RecvOnOpenNew
    \/ HandleConnectConnect
    \/ ConnectCallbackReturn
    \/ Register
    \/ \E e \in Esids : EngineOpen(e)
    \/ \E e \in Esids : PeerConnect(e)
    \/ \E e \in Esids, p \in EventPackets : PeerEventAgain(e, p)
    \/ \E s \in DOMAIN pollers : PollEvent(s)
    \/ HandlerJoin
    \/ HandlerEmitTo
    \/ \E timeout \in Timeouts : HandlerEmitToWithAck(timeout)
    \/ HandlerLeave
    \/ \E i \in DOMAIN emits : EmitTaskOk(i)

\* Handlers run one after the other on sessions that stay open, each making
\* one broadcast, and the emit tasks of all of them.
SpecOrder == Init /\ [][NextOrder]_vars

(***************************************************************************)
(* The rooms lock and the clients lock.  Every function of the server is   *)
(* taken apart at its lock acquisitions, at the end of the scope of each   *)
(* guard and at its other awaits; lk.pc[t] is where task t stands.         *)
(***************************************************************************)
\* RwLock::read can be granted: no writer holds the lock
CanRead(lock) == \A g \in lock : g[2] = "read"

\* RwLock::write can be granted: nobody holds the lock
CanWrite(lock) == lock = {}

\* task t is in none of the server's functions (its callback's own code runs)
Outside(t) == lk.pc[t].pc \in { "idle", "done" }

LkServerUnchanged ==
    UNCHANGED << seq, clients, engine, event_rx, inbox, outbox, ev, sockets,
                 pollers, bcast, opens, generated, connect_calls, dropped,
                 rejected, emits, hand, cp, tr, pl, cl, ledger >>

\* a callback calls socket.join(names) or socket.leave(names): the call
\* awaits self.rooms.write()
LkRoomsCall(t, op, h, names) ==
    /\ t \in CbTasks /\ Outside(t) /\ h \in sockets
    /\ lk' = [lk EXCEPT !.pc[t] = [op |-> op, pc |-> "lock", h |-> h, names |-> names]]
    /\ UNCHANGED rooms /\ LkServerUnchanged

\* join, leave: the write guard on rooms is granted
LkRoomsAcquire(t) ==
    /\ lk.pc[t].op \in { "join", "leave" } /\ lk.pc[t].pc = "lock"
    /\ CanWrite(lk.rooms)
    /\ lk' = [lk EXCEPT !.rooms = { << t, "write" >> }, !.pc[t].pc = "body"]
    /\ UNCHANGED rooms /\ LkServerUnchanged

\* join: the loop, and the guard dropped at the end of the function
LkJoinBody(t) ==
    /\ lk.pc[t].op = "join" /\ lk.pc[t].pc = "body"
    /\ rooms' = JoinRooms(rooms, lk.pc[t].h.nsp, lk.pc[t].names, lk.pc[t].h.sid)
    /\ lk' = [lk EXCEPT !.rooms = @ \ { << t, "write" >> },
                        !.pc[t] = [op |-> "join", pc |-> "done", h |-> lk.pc[t].h,
                                   names |-> lk.pc[t].names,
                                   changed |-> rooms' # rooms]]
    /\ LkServerUnchanged

\* leave: the loop, and the guard dropped at the end of the function
LkLeaveBody(t) ==
    /\ lk.pc[t].op = "leave" /\ lk.pc[t].pc = "body"
    /\ rooms' = LeaveRooms(rooms, lk.pc[t].h.nsp, lk.pc[t].names, lk.pc[t].h.sid)
    /\ lk' = [lk EXCEPT !.rooms = @ \ { << t, "write" >> },
                        !.pc[t] = [op |-> "leave", pc |-> "done", h |-> lk.pc[t].h,
                                   names |-> lk.pc[t].names,
                                   changed |-> rooms' # rooms]]
    /\ LkServerUnchanged

\* a callback calls socket.emit_to(names, ..): sids_to_emit awaits
\* self.rooms.read()
LkEmitToCall(t, h, names) ==
    /\ t \in CbTasks /\ Outside(t) /\ h \in sockets
    /\ lk' = [lk EXCEPT !.pc[t] = [op |-> "emit_to", pc |-> "sids_lock", h |-> h,
                                   names |-> names, todo |-> EmptyMap,
                                   cur |-> << >>, spawned |-> 0]]
    /\ UNCHANGED rooms /\ LkServerUnchanged

\* sids_to_emit: the read guard on rooms is granted
LkSidsAcquire(t) ==
    /\ lk.pc[t].pc = "sids_lock"
    /\ CanRead(lk.rooms)
    /\ lk' = [lk EXCEPT !.rooms = @ \cup { << t, "read" >> }, !.pc[t].pc = "sids_body"]
    /\ UNCHANGED rooms /\ LkServerUnchanged

\* the read guard on rooms kept by the caller for the loop of emit_to
LkSidsBodyKeepGuard(t) ==
    /\ lk.pc[t].pc = "sids_body"
    /\ lk' = [lk EXCEPT !.pc[t].pc = "loop",
                        !.pc[t].todo = SidsToEmit(rooms, lk.pc[t].h.nsp, lk.pc[t].names)]
    /\ UNCHANGED rooms /\ LkServerUnchanged

\* sids_to_emit: the set is built and returned, the guard dropped with it
LkSidsBody(t) ==
    /\ lk.pc[t].pc = "sids_body"
    /\ lk' = [lk EXCEPT !.rooms = @ \ { << t, "read" >> },
                        !.pc[t].pc = "loop",
                        !.pc[t].todo = SidsToEmit(rooms, lk.pc[t].h.nsp, lk.pc[t].names)]
    /\ UNCHANGED rooms /\ LkServerUnchanged

\* emit_to, the loop: self.client(&sid, nsp) is granted its read guard on
\* clients
LkClientAcquire(t) ==
    /\ lk.pc[t].pc = "loop"
    /\ CanRead(lk.clients)
    /\ \E sid \in DOMAIN lk.pc[t].todo :
          lk' = [lk EXCEPT !.clients = @ \cup { << t, "read" >> },
                           !.pc[t].pc = "client_body", !.pc[t].cur = sid]
    /\ UNCHANGED rooms /\ LkServerUnchanged

\* Server::client returns, its guard dropped; the emit task is spawned when
\* it found a socket
LkClientBody(t) ==
    /\ lk.pc[t].pc = "client_body"
    /\ lk' = [lk EXCEPT !.clients = @ \ { << t, "read" >> },
                        !.pc[t].pc = "loop",
                        !.pc[t].todo = TakeOne(@, lk.pc[t].cur),
                        !.pc[t].spawned = IF HasClient(lk.pc[t].cur, lk.pc[t].h.nsp)
                                          THEN @ + 1 ELSE @]
    /\ UNCHANGED rooms /\ LkServerUnchanged

\* emit_to returns
LkEmitToReturn(t) ==
    /\ lk.pc[t].pc = "loop" /\ DOMAIN lk.pc[t].todo = {}
    /\ lk' = [lk EXCEPT !.pc[t] = [op |-> "emit_to", pc |-> "done"]]
    /\ UNCHANGED rooms /\ LkServerUnchanged

\* what the steps of the recv_event task below leave alone
LkRecvUnchanged ==
    UNCHANGED << rooms, inbox, outbox, ev, pollers, bcast, opens, generated,
                 connect_calls, dropped, rejected, emits, hand, cp, tr, pl, cl, ledger >>

\* recv_event takes OnOpen(esid); create_client finds the engine socket and
\* polling_transport_info awaits self.clients.read()
LkRecvOnOpen ==
    /\ lk.pc[RecvTask].pc = "idle"
    /\ event_rx # << >> /\ Head(event_rx).type = "OnOpen"
    /\ event_rx' = Tail(event_rx)
    /\ lk' = [lk EXCEPT !.pc[RecvTask] =
                 IF EngineSocket(Head(event_rx).esid)
                 THEN [op |-> "open", pc |-> "pti_lock", esid |-> Head(event_rx).esid,
                       sid |-> << >>, nsp |-> "", handshake |-> FALSE]
                 ELSE TaskIdle]
    /\ UNCHANGED << seq, clients, engine, sockets >> /\ LkRecvUnchanged

\* polling_transport_info: the read guard on clients is granted
LkPtiAcquire ==
    /\ lk.pc[RecvTask].pc = "pti_lock"
    /\ CanRead(lk.clients)
    /\ lk' = [lk EXCEPT !.clients = @ \cup { << RecvTask, "read" >> },
                        !.pc[RecvTask].pc = "pti_body"]
    /\ UNCHANGED << seq, clients, engine, event_rx, sockets >> /\ LkRecvUnchanged

\* polling_transport_info returns Some((sid, nsp)), its guard dropped:
\* insert_clients builds the socket and awaits the connect callback
LkPtiSome ==
    /\ lk.pc[RecvTask].pc = "pti_body"
    /\ \E info \in PollingTransportInfo(lk.pc[RecvTask].esid) :
          /\ info[2] \in on
          /\ sockets' = sockets \cup { [sid |-> info[1], nsp |-> info[2],
                                       esid |-> lk.pc[RecvTask].esid] }
          /\ lk' = [lk EXCEPT !.clients = @ \ { << RecvTask, "read" >> },
                              !.pc[RecvTask].pc = "connect_callback",
                              !.pc[RecvTask].sid = info[1],
                              !.pc[RecvTask].nsp = info[2]]
    /\ UNCHANGED << seq, clients, engine, event_rx >> /\ LkRecvUnchanged

\* polling_transport_info returns None, its guard dropped: handle_connect
\* generates the sid and awaits the peer's packets
LkPtiNone ==
    /\ lk.pc[RecvTask].pc = "pti_body"
    /\ PollingTransportInfo(lk.pc[RecvTask].esid) = {}
    /\ seq' = FetchAdd(seq)
    /\ lk' = [lk EXCEPT !.clients = @ \ { << RecvTask, "read" >> },
                        !.pc[RecvTask].pc = "poll_connect",
                        !.pc[RecvTask].sid = Generate(lk.pc[RecvTask].esid, seq),
                        !.pc[RecvTask].handshake = TRUE]
    /\ UNCHANGED << clients, engine, event_rx, sockets >> /\ LkRecvUnchanged

\* handle_connect: the CONNECT for nsp arrives; insert_clients builds the
\* socket and awaits the connect callback, or returns when nsp has no table
LkPollConnect(nsp) ==
    /\ lk.pc[RecvTask].pc = "poll_connect"
    /\ IF nsp \in on
       THEN /\ sockets' = sockets \cup { [sid |-> lk.pc[RecvTask].sid, nsp |-> nsp,
                                          esid |-> lk.pc[RecvTask].esid] }
            /\ lk' = [lk EXCEPT !.pc[RecvTask].pc = "connect_callback",
                                !.pc[RecvTask].nsp = nsp]
       ELSE /\ lk' = [lk EXCEPT !.pc[RecvTask] = TaskIdle]
            /\ UNCHANGED sockets
    /\ UNCHANGED << seq, clients, engine, event_rx >> /\ LkRecvUnchanged

\* insert_clients: the connect callback returns, poll(client) is spawned; the
\* handshake is sent when asked for
LkConnectCallbackReturn ==
    /\ lk.pc[RecvTask].pc = "connect_callback"
    /\ lk' = [lk EXCEPT !.pc[RecvTask].pc =
                 IF lk.pc[RecvTask].handshake THEN "handshake" ELSE "ins_lock"]
    /\ UNCHANGED << seq, clients, engine, event_rx, sockets >> /\ LkRecvUnchanged

\* insert_clients: client.handshake(..) returns; self.clients.write() is
\* awaited
LkHandshakeReturn ==
    /\ lk.pc[RecvTask].pc = "handshake"
    /\ lk' = [lk EXCEPT !.pc[RecvTask].pc = "ins_lock"]
    /\ UNCHANGED << seq, clients, engine, event_rx, sockets >> /\ LkRecvUnchanged

\* insert_clients, drop_client: the write guard on clients is granted
LkClientsWriteAcquire ==
    /\ lk.pc[RecvTask].pc \in { "ins_lock", "rm_lock" }
    /\ CanWrite(lk.clients)
    /\ lk' = [lk EXCEPT !.clients = { << RecvTask, "write" >> },
                        !.pc[RecvTask].pc = IF @ = "ins_lock" THEN "ins_body" ELSE "rm_body"]
    /\ UNCHANGED << seq, clients, engine, event_rx, sockets >> /\ LkRecvUnchanged

\* insert_clients: clients.insert(sid, ns_clients), the guard dropped at the
\* end of the function
LkInsertBody ==
    /\ lk.pc[RecvTask].pc = "ins_body"
    /\ LET r == lk.pc[RecvTask]
       IN  clients' = (r.sid :> (r.nsp :> [sid |-> r.sid, nsp |-> r.nsp, esid |-> r.esid]))
                      @@ clients
    /\ lk' = [lk EXCEPT !.clients = @ \ { << RecvTask, "write" >> },
                        !.pc[RecvTask] = TaskIdle]
    /\ UNCHANGED << seq, engine, event_rx, sockets >> /\ LkRecvUnchanged

\* recv_event takes OnClose(esid); drop_client awaits
\* engine_server.close_socket(esid)
LkRecvOnClose ==
    /\ lk.pc[RecvTask].pc = "idle"
    /\ event_rx # << >> /\ Head(event_rx).type = "OnClose"
    /\ event_rx' = Tail(event_rx)
    /\ lk' = [lk EXCEPT !.pc[RecvTask] =
                 [op |-> "close", pc |-> "close_socket", esid |-> Head(event_rx).esid]]
    /\ UNCHANGED << seq, clients, engine, sockets >> /\ LkRecvUnchanged

\* drop_client: close_socket returns; self.clients.write() is awaited
LkCloseSocketReturn ==
    /\ lk.pc[RecvTask].pc = "close_socket"
    /\ engine' = [engine EXCEPT ![lk.pc[RecvTask].esid] = "closed"]
    /\ lk' = [lk EXCEPT !.pc[RecvTask].pc = "rm_lock"]
    /\ UNCHANGED << seq, clients, event_rx, sockets >> /\ LkRecvUnchanged

\* drop_client: clients.remove(esid), drop(clients); self.rooms.write() is
\* awaited
LkRemoveBody ==
    /\ lk.pc[RecvTask].pc = "rm_body"
    /\ clients' = [s \in DOMAIN clients \ { lk.pc[RecvTask].esid } |-> clients[s]]
    /\ lk' = [lk EXCEPT !.clients = @ \ { << RecvTask, "write" >> },
                        !.pc[RecvTask].pc = "retain_lock"]
    /\ UNCHANGED << seq, engine, event_rx, sockets >> /\ LkRecvUnchanged

\* drop_client: the write guard on rooms is granted
LkRetainAcquire ==
    /\ lk.pc[RecvTask].pc = "retain_lock"
    /\ CanWrite(lk.rooms)
    /\ lk' = [lk EXCEPT !.rooms = { << RecvTask, "write" >> },
                        !.pc[RecvTask].pc = "retain_body"]
    /\ UNCHANGED << seq, clients, engine, event_rx, sockets >> /\ LkRecvUnchanged

\* drop_client: the retain loops, the guard dropped at the end of the function
LkRetainBody ==
    /\ lk.pc[RecvTask].pc = "retain_body"
    /\ rooms' = [n \in DOMAIN rooms |->
                    [r \in DOMAIN rooms[n] |->
                        { s \in rooms[n][r] : Decode(s) # lk.pc[RecvTask].esid }]]
    /\ lk' = [lk EXCEPT !.rooms = @ \ { << RecvTask, "write" >> },
                        !.pc[RecvTask] = TaskIdle]
    /\ UNCHANGED << seq, clients, engine, event_rx, sockets, inbox, outbox, ev,
                    pollers, bcast, opens, generated, connect_calls, dropped,
                    rejected, emits, hand, cp, tr, pl, cl, ledger >>

NextLocks ==
    \/ \E t \in CbTasks, h \in sockets, names \in RoomLists : LkRoomsCall(t, "join", h, names)
    \/ \E t \in CbTasks, h \in sockets, names \in RoomLists : LkRoomsCall(t, "leave", h, names)
    \/ \E t \in CbTasks : LkRoomsAcquire(t)
    \/ \E t \in CbTasks : LkJoinBody(t)
    \/ \E t \in CbTasks : LkLeaveBody(t)
    \/ \E t \in CbTasks, h \in sockets, names \in RoomLists : LkEmitToCall(t, h, names)
    \/ \E t \in CbTasks : LkSidsAcquire(t)
    \/ \E t \in CbTasks : LkSidsBody(t)
    \/ \E t \in CbTasks : LkClientAcquire(t)
    \/ \E t \in CbTasks : LkClientBody(t)
    \/ \E t \in CbTasks : LkEmitToReturn(t)
    \/ LkRecvOnOpen
    \/ LkPtiAcquire
    \/ LkPtiSome
    \/ LkPtiNone
    \/ \E nsp \in Namespaces : LkPollConnect(nsp)
    \/ LkConnectCallbackReturn
    \/ LkHandshakeReturn
    \/ LkClientsWriteAcquire
    \/ LkInsertBody
    \/ LkRecvOnClose
    \/ LkCloseSocketReturn
    \/ LkRemoveBody
    \/ LkRetainAcquire
    \/ LkRetainBody
    \/ \E e \in Esids : EngineOpen(e)
    \/ \E e \in Esids : EngineReopen(e)
    \/ \E e \in Esids : EngineClose(e)

\* The server's functions step by step between their awaits, with the guards
\* on the two locks, run by the recv_event task and the callbacks.
SpecLocks == Init /\ [][NextLocks]_vars

(***************************************************************************)
(* ClientPolling::new and the url it stores.                               *)
(***************************************************************************)
UrlBases == { "http://127.0.0.1/", "http://localhost:4209/socket.io/" }

QueryPairs ==
    { << "transport", "polling" >>, << "transport", "websocket" >>,
      << "q", "polling" >>, << "EIO", "4" >>, << "sid", "abc" >> }

Urls ==
    { [base |-> b, query |-> q] :
        b \in UrlBases, q \in { << >> } \cup SeqsUpTo(QueryPairs, MaxPairs) }

\* the query as text: the pairs as key=value, joined by &
RECURSIVE QueryToString(_)
QueryToString(q) ==
    IF q = << >> THEN << >>
    ELSE << q[1][1], "=", q[1][2] >>
         \o (IF Len(q) = 1 THEN << >> ELSE << "&" >> \o QueryToString(Tail(q)))

\* Url::to_string, as the list of its pieces: a url without query has no ?
UrlToString(u) ==
    IF u.query = << >> THEN << u.base >> ELSE << u.base, "?" >> \o QueryToString(u.query)

\* url.query_pairs_mut().append_pair(k, v)
AppendPair(u, k, v) == [u EXCEPT !.query = Append(@, << k, v >>)]

\* url.query_pairs().any(|(k, v)| k == "transport" || v == "polling")
AnyTransportOrPolling(u) ==
    \E i \in DOMAIN u.query : u.query[i][1] = "transport" \/ u.query[i][2] = "polling"

\* the url ClientPolling::new stores
NewUrl(u) ==
    IF ~AnyTransportOrPolling(u) THEN AppendPair(u, "transport", "polling") ELSE u

\* ClientPolling::new(url, headers)
ClientPollingNew ==
    /\ ~cp.built
    /\ cp' = [cp EXCEPT !.url = NewUrl(cp.input), !.built = TRUE]
    /\ UNCHANGED << seq, clients, rooms, engine, event_rx, inbox, outbox, ev,
                    sockets, pollers, bcast, opens, generated, connect_calls,
                    dropped, rejected, emits, hand, lk, tr, pl, cl, ledger >>

InitUrl ==
    /\ ServerInit
    /\ emits = << >>
    /\ hand = HandIdle
    /\ lk = LkIdle
    /\ cp \in { [input |-> u, url |-> u, built |-> FALSE] : u \in Urls }
    /\ tr = TrIdle
    /\ pl = PlIdle
    /\ cl = ClIdle
    /\ ledger = AckIdle

NextUrl == ClientPollingNew

\* ClientPolling::new on every url of Urls.
SpecUrl == InitUrl /\ [][NextUrl]_vars

(***************************************************************************)
(* ServerPolling: emit on the send channel, next on the recv channel.      *)
(* The channels are bounded; a frame is a sequence of bytes.  The other    *)
(* halves of the channels (send_rx, recv_tx) are held by the owner of the  *)
(* transport, who takes frames from send, pushes frames into recv and may  *)
(* close either half.                                                      *)
(***************************************************************************)
\* "1H" and the batch "1H\x1e1W"
Frames == { << 49, 72 >>, << 49, 72, 30, 49, 87 >> }

Payloads ==
    { [kind |-> "String", data |-> f] : f \in Frames }
    \cup { [kind |-> "Binary", data |-> << 255 >>] }

\* the frame emit sends: a string payload as it is, a binary one as b and
\* its base64 text
EmitData(p) ==
    IF p.kind = "String" THEN p.data ELSE << 98 >> \o B64Encode(p.data)

\* permits of the send channel given to suspended senders and not yet used
Granted == Cardinality({ k \in DOMAIN tr.waiters : tr.waiters[k].granted })

\* permits of the send channel nobody holds
FreePermits == Capacity - Len(tr.send) - Granted

\* the permit a taken frame gives back stays in no queue other than with
\* the waiters
GrantNone(ws) == ws

\* the permit a taken frame gives back goes to the sender that has waited
\* longest
GrantFirst(ws) ==
    IF \E k \in DOMAIN ws : ~ws[k].granted
    THEN LET k == CHOOSE j \in DOMAIN ws :
                      ~ws[j].granted /\ \A i \in 1..(j - 1) : ws[i].granted
         IN  [ws EXCEPT ![k].granted = TRUE]
    ELSE ws

\* the frame takes the head of the channel
ChannelPushFront(ch, f) == << f >> \o ch

\* Sender::send once it has its permit: the frame goes to the tail
ChannelPush(ch, f) == Append(ch, f)

Without(ws, k) == SubSeq(ws, 1, k - 1) \o SubSeq(ws, k + 1, Len(ws))

ServerUnchanged ==
    UNCHANGED << seq, clients, rooms, engine, event_rx, inbox, outbox, ev,
                 sockets, pollers, bcast, opens, generated, connect_calls,
                 dropped, rejected, emits, hand, lk, cp, pl, cl, ledger >>

\* emit(payload), up to its await on sender.send: on a closed channel it
\* returns SendError; with a free permit it sends the frame and returns Ok;
\* on a full channel it is suspended, behind the senders suspended before
ServerPollingEmit(p) ==
    /\ tr.calls < MaxFrames
    /\ LET id == tr.calls + 1
           data == EmitData(p)
       IN  IF tr.sendClosed THEN
               tr' = [tr EXCEPT !.calls = id,
                          !.emitted = Append(@, [id |-> id, payload |-> p, data |-> data,
                                                 res |-> "SendError", waited |-> FALSE])]
           ELSE IF FreePermits > 0 THEN
               tr' = [tr EXCEPT !.calls = id,
                          !.send = ChannelPush(@, data),
                          !.emitted = Append(@, [id |-> id, payload |-> p, data |-> data,
                                                 res |-> "Ok", waited |-> FALSE])]
           ELSE
               tr' = [tr EXCEPT !.calls = id,
                          !.waiters = Append(@, [id |-> id, payload |-> p, data |-> data,
                                                 granted |-> FALSE])]
    /\ ServerUnchanged

\* a suspended emit that has been given a permit resumes: it sends its frame
\* and returns Ok
EmitResume(id) ==
    /\ ~tr.sendClosed
    /\ \E k \in DOMAIN tr.waiters :
           /\ tr.waiters[k].id = id
           /\ tr.waiters[k].granted
           /\ tr' = [tr EXCEPT !.waiters = Without(@, k),
                          !.send = ChannelPush(@, tr.waiters[k].data),
                          !.emitted = Append(@, [id |-> id, payload |-> tr.waiters[k].payload,
                                                 data |-> tr.waiters[k].data,
                                                 res |-> "Ok", waited |-> TRUE])]
    /\ ServerUnchanged

\* a suspended emit resumes on a closed channel: map_err(Error::SendError)
EmitResumeErr(id) ==
    /\ tr.sendClosed
    /\ \E k \in DOMAIN tr.waiters :
           /\ tr.waiters[k].id = id
           /\ tr' = [tr EXCEPT !.waiters = Without(@, k),
                          !.emitted = Append(@, [id |-> id, payload |-> tr.waiters[k].payload,
                                                 data |-> tr.waiters[k].data,
                                                 res |-> "SendError", waited |-> TRUE])]
    /\ ServerUnchanged

\* send_rx.recv() by the owner of the transport: the head of the send
\* channel is taken and its permit given back
SendRxRecv ==
    /\ tr.send # << >>
    /\ tr' = [tr EXCEPT !.send = Tail(@),
                   !.taken = Append(@, Head(tr.send)),
                   !.waiters = GrantFirst(@)]
    /\ ServerUnchanged

\* send_rx.close(), or send_rx dropped
SendRxClose ==
    /\ ~tr.sendClosed
    /\ tr' = [tr EXCEPT !.sendClosed = TRUE]
    /\ ServerUnchanged

\* recv_tx.send(frame) by the owner of the transport
RecvTxSend(f) ==
    /\ ~tr.recvClosed
    /\ Len(tr.pushed) < MaxPushes
    /\ Len(tr.recv) < Capacity
    /\ tr' = [tr EXCEPT !.recv = ChannelPush(@, f), !.pushed = Append(@, f)]
    /\ ServerUnchanged

\* recv_tx dropped
RecvTxDrop ==
    /\ ~tr.recvClosed
    /\ tr' = [tr EXCEPT !.recvClosed = TRUE]
    /\ ServerUnchanged

\* poll_next with a frame on the channel: Ready(Some(Ok(bytes)))
PollNextSome ==
    /\ tr.recv # << >>
    /\ tr' = [tr EXCEPT !.recv = Tail(@),
                   !.yielded = Append(@, [frame |-> Head(tr.recv), waited |-> tr.pending]),
                   !.pending = FALSE]
    /\ ServerUnchanged

\* poll_next on an empty channel whose sender lives: Pending, and the task
\* is woken by the next frame
PollNextPending ==
    /\ tr.recv = << >>
    /\ ~tr.recvClosed
    /\ ~tr.pending
    /\ tr' = [tr EXCEPT !.pending = TRUE]
    /\ ServerUnchanged

\* poll_next on an empty channel whose sender is gone: Ready(None)
PollNextNone ==
    /\ tr.recv = << >>
    /\ tr.recvClosed
    /\ ~tr.ended
    /\ tr' = [tr EXCEPT !.ended = TRUE, !.pending = FALSE]
    /\ ServerUnchanged

EmitIds == 1..MaxFrames

NextSend ==
    \/ \E p \in Payloads : ServerPollingEmit(p)
    \/ \E id \in EmitIds : EmitResume(id)
    \/ \E id \in EmitIds : EmitResumeErr(id)
    \/ SendRxRecv
    \/ SendRxClose

NextPolling ==
    \/ NextSend
    \/ \E f \in Frames : RecvTxSend(f)
    \/ RecvTxDrop
    \/ PollNextSome
    \/ PollNextPending
    \/ PollNextNone

\* A ServerPolling, the tasks that emit on it and poll it, and the owner of
\* the other halves of its channels.
SpecPolling == Init /\ [][NextPolling]_vars

\* The send channel alone.  A task that has been woken runs, and the owner
\* goes on taking frames as long as there are some.
SpecSendFair ==
    /\ Init
    /\ [][NextSend]_vars
    /\ WF_vars(SendRxRecv)
    /\ \A id \in EmitIds : WF_vars(EmitResume(id)) /\ WF_vars(EmitResumeErr(id))

(***************************************************************************)
(* The Client of socketio/src/client: its receive pump (poll_callback),    *)
(* reconnect and do_reconnect, and the user's calls emit and disconnect.   *)
(* ClientBuilder and the inner Socket are not part of the sources at hand: *)
(* connect_socket succeeds or fails, and the inner socket behaves as the   *)
(* specification of the Socket says.                                       *)
(***************************************************************************)
\* the builders, with the default delays in milliseconds;
\* max_reconnect_attempts is None, or Some(n)
Builders ==
    { [reconnect |-> r, max_reconnect_attempts |-> m,
       reconnect_delay_min |-> 1000, reconnect_delay_max |-> 5000] :
        r \in BOOLEAN,
        m \in { [some |-> FALSE, n |-> 0] }
                 \cup { [some |-> TRUE, n |-> k] : k \in 0..MaxAttempts } }

\* Client::new, followed by poll_callback: the pump is about to poll.  The
\* backoff is built with initial interval reconnect_delay_min and max
\* interval reconnect_delay_max; expired says that its max_elapsed_time has
\* passed since.  The rest is history: the reconnect episodes (eps: the delays slept and the
\* results of do_reconnect, and how the episode ended), the connection
\* attempts that failed, whether disconnect() has returned, whether the
\* error of the episode was met after that (late_error), whether a user
\* callback fired after that, whether do_reconnect was called for an error
\* met after that, and the emit calls.  guard is the disconnect call that
\* holds the write lock of connected (0: none), calls the step every
\* disconnect call is at, returned the disconnect calls that have returned,
\* in order, each with whether it invoked the socket's disconnect
ClNew(b) ==
    [pc |-> "poll", builder |-> b, connected |-> TRUE,
     socket |-> [gen |-> 0, up |-> TRUE], backoff |-> [current_interval |-> b.reconnect_delay_min,
                 max_interval |-> b.reconnect_delay_max, expired |-> FALSE],
     reconnect_attempts |-> 0, eps |-> << >>, fails |-> 0,
     disconnected |-> FALSE, late_error |-> FALSE, late_callback |-> FALSE, late_reconnect |-> FALSE,
     emitted |-> << >>,
     guard |-> 0, calls |-> [c \in 1..MaxDisconnects |-> "idle"], returned |-> << >>]

\* self.backoff.next_backoff(), and the time slept on it: None once
\* max_elapsed_time has passed (no sleep), else the randomized interval (the
\* current interval, or up to half of it less or more: j in -1..1), and the
\* current interval grows by the multiplier 1.5 up to max_interval.
\* Nothing resets the backoff
NextBackoff(bo, j) ==
    IF bo.expired THEN [delay |-> 0, backoff |-> bo]
    ELSE [delay |-> bo.current_interval + j * (bo.current_interval \div 2),
          backoff |-> [bo EXCEPT !.current_interval =
                          IF bo.current_interval * 3 >= bo.max_interval * 2
                          THEN bo.max_interval
                          ELSE (bo.current_interval * 3) \div 2]]

\* if let Some(max) = max_reconnect_attempts { if reconnect_attempts > max { break } }
Exceeded(reconnect_attempts, max) == max.some /\ reconnect_attempts > max.n

\* the inner socket's emit: sent when the socket is connected, NotConnected
\* when it is not
InnerEmit(socket) == IF socket.up THEN "Ok" ELSE "NotConnected"

\* an emit that waits for the next socket when the current one is down
ClientEmitQueued(socket) == IF socket.up THEN "Ok" ELSE "Queued"

\* Client::emit: the emit of the socket now installed
ClientEmit(socket) == InnerEmit(socket)

ClientUnchanged ==
    UNCHANGED << seq, clients, rooms, engine, event_rx, inbox, outbox, ev,
                 sockets, pollers, bcast, opens, generated, connect_calls,
                 dropped, rejected, emits, hand, lk, cp, tr, pl, ledger >>

\* poll_packet returns a packet and its callback has run
PumpPollPacket ==
    /\ cl.pc = "poll" /\ cl.socket.up
    /\ cl' = [cl EXCEPT !.pc = "check",
                        !.late_callback = @ \/ cl.disconnected]
    /\ ClientUnchanged

\* poll_packet returns Some(Err(IncompleteResponseFromEngineIo))
PumpPollIncomplete ==
    /\ cl.pc = "poll"
    /\ Len(cl.eps) < MaxEpisodes
    /\ cl' = [cl EXCEPT !.pc = "disconnect_socket", !.late_error = cl.disconnected]
    /\ ClientUnchanged

\* poll_packet returns None or another error
PumpPollOther ==
    /\ cl.pc = "poll" /\ ~cl.socket.up
    /\ cl' = [cl EXCEPT !.pc = "check"]
    /\ ClientUnchanged

\* let _ = self_clone.disconnect_socket().await, then the entry of
\* reconnect: reconnect_attempts = 0, and the loop only if builder.reconnect
PumpDisconnectSocket ==
    /\ cl.pc = "disconnect_socket"
    /\ cl' = [cl EXCEPT !.socket.up = FALSE,
                        !.reconnect_attempts = 0,
                        !.pc = IF cl.builder.reconnect THEN "reconnect" ELSE "check",
                        !.eps = Append(@, [delays |-> << >>, results |-> << >>,
                                           ended |-> IF cl.builder.reconnect
                                                     THEN "no" ELSE "disabled"])]
    /\ ClientUnchanged

\* the top of the loop of reconnect finds the attempts exceeded: break
ReconnectBreak ==
    /\ cl.pc = "reconnect"
    /\ Exceeded(cl.reconnect_attempts, cl.builder.max_reconnect_attempts)
    /\ cl' = [cl EXCEPT !.pc = "check", !.eps[Len(cl.eps)].ended = "exceeded"]
    /\ ClientUnchanged

\* the loop of reconnect up to do_reconnect: reconnect_attempts += 1, the
\* backoff taken and slept on
ReconnectSleep(j) ==
    /\ cl.pc = "reconnect"
    /\ ~Exceeded(cl.reconnect_attempts, cl.builder.max_reconnect_attempts)
    /\ LET nb == NextBackoff(cl.backoff, j)
       IN  cl' = [cl EXCEPT !.pc = "do_reconnect",
                            !.reconnect_attempts = @ + 1,
                            !.backoff = nb.backoff,
                            !.eps[Len(cl.eps)].delays = Append(@, nb.delay)]
    /\ ClientUnchanged

\* do_reconnect: connect_socket succeeds (the connect callback fires) and
\* the new socket is installed under the write lock; reconnect breaks
DoReconnectOk ==
    /\ cl.pc = "do_reconnect"
    /\ cl' = [cl EXCEPT !.pc = "check",
                        !.socket = [gen |-> cl.socket.gen + 1, up |-> TRUE],
                        !.eps[Len(cl.eps)].results = Append(@, "Ok"),
                        !.eps[Len(cl.eps)].ended = "reconnected",
                        !.late_callback = @ \/ cl.disconnected,
                        !.late_reconnect = @ \/ cl.late_error]
    /\ ClientUnchanged

\* do_reconnect: connect_socket fails, the loop goes on
DoReconnectErr ==
    /\ cl.pc = "do_reconnect"
    /\ cl.fails < MaxFailures
    /\ cl' = [cl EXCEPT !.pc = "reconnect",
                        !.fails = @ + 1,
                        !.eps[Len(cl.eps)].results = Append(@, "Err"),
                        !.late_reconnect = @ \/ cl.late_error]
    /\ ClientUnchanged

\* if !*self_clone.connected.read().await { break }: the read lock is given
\* when no disconnect call holds the write lock
PumpCheckConnected ==
    /\ cl.pc = "check"
    /\ cl.guard = 0
    /\ cl' = [cl EXCEPT !.pc = IF cl.connected THEN "poll" ELSE "stopped"]
    /\ ClientUnchanged

\* max_elapsed_time has passed since the backoff was built
BackoffExpires ==
    /\ cl.pc \notin { "none", "stopped" }
    /\ ~cl.backoff.expired
    /\ cl' = [cl EXCEPT !.backoff.expired = TRUE]
    /\ ClientUnchanged

\* the user calls Client::disconnect, which returns: nothing when not
\* connected, else connected = false and the socket is disconnected
UserDisconnect ==
    /\ cl.pc # "none"
    /\ ~cl.disconnected
    /\ cl' = [cl EXCEPT !.connected = FALSE, !.socket.up = FALSE,
                        !.disconnected = TRUE]
    /\ ClientUnchanged

\* the user calls Client::emit, which returns
UserEmit ==
    /\ cl.pc # "none"
    /\ Len(cl.emitted) < MaxEmitCalls
    /\ cl' = [cl EXCEPT !.emitted = Append(@, [res |-> ClientEmit(cl.socket),
                                               gen |-> cl.socket.gen,
                                               reconnecting |-> cl.pc \in { "reconnect", "do_reconnect" }])]
    /\ ClientUnchanged

\* a disconnect that never finds the client disconnected already
NeverDisconnected(connected) == FALSE

\* if !*connected { return Ok(()) }
AlreadyDisconnected(connected) == ~connected

\* a clone of the Client calls disconnect: it asks for the write lock of
\* connected
DisconnectCall(c) ==
    /\ cl.pc # "none"
    /\ cl.calls[c] = "idle"
    /\ cl' = [cl EXCEPT !.calls[c] = "write"]
    /\ ClientUnchanged

\* disconnect is given the write lock: it returns Ok(()) when the client is
\* disconnected already, else it sets connected = false and goes on to
\* disconnect_socket with the lock held
DisconnectLocked(c) ==
    /\ cl.pc # "none"
    /\ cl.calls[c] = "write"
    /\ cl.guard = 0
    /\ IF AlreadyDisconnected(cl.connected)
       THEN cl' = [cl EXCEPT !.calls[c] = "returned",
                             !.returned = Append(@, [call |-> c, socket |-> FALSE]),
                             !.disconnected = TRUE]
       ELSE cl' = [cl EXCEPT !.calls[c] = "disconnect_socket",
                             !.guard = c,
                             !.connected = FALSE]
    /\ ClientUnchanged

\* disconnect_socket: the socket's disconnect is invoked, disconnect returns
\* its result and the write lock is dropped
DisconnectSocket(c) ==
    /\ cl.pc # "none"
    /\ cl.calls[c] = "disconnect_socket"
    /\ cl' = [cl EXCEPT !.calls[c] = "returned",
                        !.socket.up = FALSE,
                        !.guard = 0,
                        !.returned = Append(@, [call |-> c, socket |-> TRUE]),
                        !.disconnected = TRUE]
    /\ ClientUnchanged

InitClient ==
    /\ ServerInit
    /\ emits = << >>
    /\ hand = HandIdle
    /\ lk = LkIdle
    /\ cp = CpNone
    /\ tr = TrIdle
    /\ pl = PlIdle
    /\ cl \in { ClNew(b) : b \in Builders }
    /\ ledger = AckIdle

NextClient ==
    \/ PumpPollPacket
    \/ PumpPollIncomplete
    \/ PumpPollOther
    \/ PumpDisconnectSocket
    \/ ReconnectBreak
    \/ \E j \in -1..1 : ReconnectSleep(j)
    \/ DoReconnectOk
    \/ DoReconnectErr
    \/ PumpCheckConnected
    \/ BackoffExpires
    \/ UserDisconnect
    \/ UserEmit

\* A connected Client of every configuration, its pump and its user.
SpecClient == InitClient /\ [][NextClient]_vars

\* the steps of the task poll_callback spawns
ReceivePump ==
    \/ PumpPollPacket
    \/ PumpPollIncomplete
    \/ PumpPollOther
    \/ PumpDisconnectSocket
    \/ ReconnectBreak
    \/ \E j \in -1..1 : ReconnectSleep(j)
    \/ DoReconnectOk
    \/ DoReconnectErr
    \/ PumpCheckConnected

\* The Client with a receive pump that is scheduled as long as it can take
\* a step; the user calls disconnect or not.
SpecPumpFair == SpecClient /\ WF_vars(ReceivePump)

NextDisconnect ==
    \/ PumpPollPacket
    \/ PumpPollIncomplete
    \/ PumpPollOther
    \/ PumpDisconnectSocket
    \/ ReconnectBreak
    \/ ReconnectSleep(0)
    \/ DoReconnectOk
    \/ DoReconnectErr
    \/ PumpCheckConnected
    \/ \E c \in 1..MaxDisconnects : DisconnectCall(c)
    \/ \E c \in 1..MaxDisconnects : DisconnectLocked(c)
    \/ \E c \in 1..MaxDisconnects : DisconnectSocket(c)

\* The Client's pump, and disconnect called on clones of the Client, one
\* call after the other or several at once.
SpecDisconnect == InitClient /\ [][NextDisconnect]_vars

(***************************************************************************)
(* The ack ledger of a Socket, which Client::emit_with_ack hands its       *)
(* callback to.  The inner Socket is not part of the sources at hand: the  *)
(* ledger is the one the specification of the Socket describes.            *)
(***************************************************************************)
AckUnchanged ==
    UNCHANGED << seq, clients, rooms, engine, event_rx, inbox, outbox, ev,
                 sockets, pollers, bcast, opens, generated, connect_calls,
                 dropped, rejected, emits, hand, lk, cp, tr, pl, cl >>

\* an ACK that finds its entry leaves it in the ledger
AckKeep(pending, id) == pending

\* the entry of id leaves the ledger
AckRemove(pending, id) == pending \ { id }

\* emit_with_ack: the next ack id is allocated, the callback registered
\* under it, and the event sent with the id
EmitWithAck ==
    /\ ledger.up
    /\ ledger.next < MaxAcks
    /\ ledger' = [ledger EXCEPT !.next = @ + 1, !.pending = @ \cup { ledger.next }]
    /\ AckUnchanged

\* the peer's handler calls ack(id, payload) with an id it has received
PeerAck(id) ==
    /\ ledger.up
    /\ id < ledger.next
    /\ ledger.acks_sent < MaxAckPackets
    /\ ledger' = [ledger EXCEPT !.wire = Append(@, id), !.acks_sent = @ + 1]
    /\ AckUnchanged

\* inbound ACK: look up the id; if present invoke the callback with the
\* payload and remove the entry; if absent drop the packet
AckArrives ==
    /\ ledger.up
    /\ ledger.wire # << >>
    /\ LET id == Head(ledger.wire)
       IN  IF id \in ledger.pending
           THEN ledger' = [ledger EXCEPT !.wire = Tail(@),
                                         !.pending = AckRemove(@, id),
                                         !.calls[id] = Append(@, "Ack")]
           ELSE ledger' = [ledger EXCEPT !.wire = Tail(@), !.dropped = @ \cup { id }]
    /\ AckUnchanged

\* the timeout sweep finds the deadline of id elapsed: the entry is removed
\* and its callback invoked with the timeout payload
TimeoutSweep(id) ==
    /\ ledger.up
    /\ id \in ledger.pending
    /\ ledger' = [ledger EXCEPT !.pending = AckRemove(@, id),
                                !.calls[id] = Append(@, "AckTimeout")]
    /\ AckUnchanged

\* the socket is disconnected (Client::disconnect, or the pump's
\* disconnect_socket before it reconnects): every pending entry is resolved
\* with Disconnected
SocketDisconnect ==
    /\ ledger.up
    /\ ledger' = [ledger EXCEPT !.up = FALSE,
                                !.pending = {},
                                !.calls = [i \in DOMAIN @ |->
                                              IF i \in ledger.pending
                                              THEN Append(@[i], "Disconnected")
                                              ELSE @[i]]]
    /\ AckUnchanged

NextAck ==
    \/ EmitWithAck
    \/ \E id \in 0..MaxAcks - 1 : PeerAck(id)
    \/ AckArrives
    \/ \E id \in 0..MaxAcks - 1 : TimeoutSweep(id)
    \/ SocketDisconnect

\* One Socket, its ledger, its peer and its timeout sweep.
SpecAck == Init /\ [][NextAck]_vars

(***************************************************************************)
(* Broadcast with sockets in two namespaces.                               *)
(***************************************************************************)
\* the peer of a session whose socket the server has built emits an event in
\* the namespace of that socket
PeerEventTo(e, k) ==
    /\ Len(hand.log) + EventsInFlight < MaxEvents
    /\ \E h \in sockets :
          /\ h.esid = e
          /\ PeerSend(e, [ptype |-> "EVENT", nsp |-> h.nsp, data |-> k])

NextIsolation ==
    \/ RecvOnOpenNew
    \/ HandleConnectConnect
    \/ ConnectCallbackReturn
    \/ Register
    \/ \E e \in Esids : EngineOpen(e)
    \/ \E e \in Esids, nsp \in on : PeerConnectTo(e, nsp)
    \/ \E h \in sockets, r \in RoomNames : Join(h, << r >>)
    \/ \E h \in sockets, names \in SeqsUpTo(NamePool, MaxNames) : EmitToCall(h, names)
    \/ EmitToSpawn
    \/ EmitToSkip
    \/ EmitToReturn
    \/ \E e \in Esids : PeerEventTo(e, "trigger_server_ack")
    \/ \E s \in DOMAIN pollers : PollEvent(s)
    \/ HandlerJoin
    \/ \E timeout \in Timeouts : HandlerEmitToWithAck(timeout)
    \/ HandlerLeave

\* Sessions accepted in either of two registered namespaces; callbacks that
\* join a room and call emit_to with any names; and the handler of
\* "trigger_server_ack", which joins, calls emit_to_with_ack and leaves, run
\* in either namespace.  The emit tasks spawned are left unrun: they do not
\* choose their socket.
SpecIsolation == Init /\ [][NextIsolation]_vars

(***************************************************************************)
(* Claims.                                                                 *)
(***************************************************************************)
\* the engine sid a sid was minted for, by the history of generate
MintedFor(sid, esid) ==
    \E i \in DOMAIN generated : generated[i].sid = sid /\ generated[i].esid = esid

\* C1: every sid that is a member of some room set of the rooms index is a
\* key of the clients table, in every reachable state.
RoomsSubsetOfClients ==
    \A n \in DOMAIN rooms : \A r \in DOMAIN rooms[n] : rooms[n][r] \subseteq DOMAIN clients

\* C2: once drop_client(esid) has completed, no key of clients decodes to esid.
DroppedNotInClients ==
    \A e \in dropped : \A s \in DOMAIN clients : Decode(s) # e

\* C3: once drop_client(esid) has completed, no room set of any namespace
\* holds a sid minted for esid, and none gets one later.
DroppedNotInRooms ==
    \A e \in dropped : \A n \in DOMAIN rooms : \A r \in DOMAIN rooms[n] :
        \A s \in rooms[n][r] : ~MintedFor(s, e)

\* C4: decode(generate(E)) = E for every engine sid E and counter value.
DecodeInvertsGenerate ==
    \A i \in DOMAIN generated : Decode(generated[i].sid) = generated[i].esid

\* C5: any two calls of generate return different sids, and no two engine
\* sessions have a socket under the same sid.
SidsUnique ==
    /\ \A i, j \in DOMAIN generated : i # j => generated[i].sid # generated[j].sid
    /\ \A h1, h2 \in sockets : h1.sid = h2.sid => h1.esid = h2.esid

\* C6: when the CONNECT of a session names a namespace without event table,
\* the server has replied CONNECT_ERROR, closed the connection and
\* registered nothing.
UnknownNamespaceRefused ==
    \A e \in rejected :
        /\ \E i \in DOMAIN outbox[e] : outbox[e][i].ptype = "CONNECT_ERROR"
        /\ engine[e] = "closed"
        /\ \A s \in DOMAIN clients : \A n \in DOMAIN clients[s] : clients[s][n].esid # e

\* C7: the connect callback of a session never runs before the CONNECT
\* handshake reply carrying the sid has been sent to it.
HandshakeBeforeConnectCallback ==
    \A h \in sockets :
        connect_calls[<< h.esid, h.nsp >>] > 0 =>
            \E i \in DOMAIN outbox[h.esid] :
                outbox[h.esid][i].ptype = "CONNECT" /\ outbox[h.esid][i].data = h.sid

\* C8: for each engine session and namespace the connect callback runs at
\* most once, also when OnOpen is raised again for the session.
ConnectCallbackOnce ==
    \A k \in DOMAIN connect_calls : connect_calls[k] <= 1

\* the loop of emit_to has visited every sid of sids_to_emit
LoopFinished == bcast.pc = "loop" /\ DOMAIN bcast.todo = {}

\* the union of the listed rooms, as they were when sids_to_emit read them
SnapUnion == UNION { bcast.snap[r] : r \in DOMAIN bcast.snap }

\* sid had a socket registered under the namespace of the call when the call
\* read the rooms index and has one now (no sid is ever registered twice over
\* a removal, so it had one all along)
RegisteredThroughout(sid) == sid \in bcast.snap_reg /\ HasClient(sid, bcast.nsp)

\* C9: emit_to spawns exactly one emit for each distinct sid of the union of
\* the listed rooms that has a socket registered in nsp, however many listed
\* rooms hold the sid and however often a room is listed, the emitter
\* included; and it spawns no emit twice and none outside the listed names.
EmitToOncePerRecipient ==
    LoopFinished =>
        /\ \A s \in Range(bcast.spawned) : Count(bcast.spawned, s) = 1
        /\ \A s \in SnapUnion : RegisteredThroughout(s) => s \in Range(bcast.spawned)
        /\ Range(bcast.spawned) \subseteq SnapUnion \cup Range(bcast.names)

\* C9, the case: two different listed rooms both hold the emitter and a second
\* registered sid, and both got their emit.
EmitToOncePerRecipientWitness ==
    /\ LoopFinished
    /\ Len(bcast.names) = 2 /\ bcast.names[1] # bcast.names[2]
    /\ Range(bcast.names) \subseteq DOMAIN bcast.snap
    /\ \E s \in bcast.snap[bcast.names[1]] \cap bcast.snap[bcast.names[2]] :
          /\ s # bcast.by
          /\ bcast.by \in bcast.snap[bcast.names[1]] \cap bcast.snap[bcast.names[2]]
          /\ Range(bcast.spawned) = { s, bcast.by }

\* C10: a listed name that is not a known room of nsp and is the sid of a
\* socket registered in nsp gets an emit, whatever the rooms index holds.
DirectSendAlways ==
    LoopFinished =>
        \A i \in DOMAIN bcast.names :
            (bcast.names[i] \notin DOMAIN bcast.snap /\ RegisteredThroughout(bcast.names[i]))
                => bcast.names[i] \in Range(bcast.spawned)

\* the call in progress lists one name, which is no room of nsp in the
\* snapshot and not the sid of a socket registered in nsp
OneUnknownName ==
    /\ Len(bcast.names) = 1
    /\ bcast.names[1] \notin DOMAIN bcast.snap
    /\ ~(bcast.names[1] \in DOMAIN clients /\ bcast.nsp \in DOMAIN clients[bcast.names[1]])

\* C11: emit_to(nsp, [name]) where name is neither a room of nsp nor the sid
\* of a socket registered in nsp spawns no emit, and no step of emit_to
\* changes the rooms index or the clients table (no room is created).
EmitToUnknownNameNoOp ==
    /\ [](LoopFinished /\ OneUnknownName => bcast.spawned = << >>)
    /\ [][bcast' # bcast => rooms' = rooms /\ clients' = clients]_vars

\* C11, the case: the namespace has rooms and a registered socket, the one
\* listed name is none of them, and the loop ended with nothing spawned.
EmitToUnknownNameWitness ==
    /\ LoopFinished /\ OneUnknownName
    /\ bcast.nsp \in DOMAIN rooms /\ DOMAIN rooms[bcast.nsp] # {}
    /\ bcast.snap_reg # {}
    /\ bcast.spawned = << >>

\* the tasks spawned by the broadcast of the c-th handler run
CallTasks(c) == { i \in DOMAIN emits : emits[i].call = c }

\* the last handler run whose broadcast has returned
LastCall == IF hand.pc \in { "join", "emit" } THEN Len(hand.log) - 1 ELSE Len(hand.log)

LastCallIs(kind) == LastCall >= 1 /\ hand.log[LastCall].kind = kind

\* the sids the last broadcast had to reach: members of the listed room with
\* a socket registered under the namespace, both as read by the call
Recipients == hand.snap \cap hand.reg

\* C12: broadcast is best-effort per recipient: once emit_to has returned,
\* every recipient of the union has its emit task whatever became of the
\* other recipients' tasks (failed, or never run); every task not yet run can
\* run whatever the state of the others; and the caller of emit_to goes on
\* to its next statement without waiting for any of them.
EmitToBestEffort ==
    /\ LastCallIs("echo") =>
           \A s \in Recipients : \E i \in CallTasks(LastCall) : emits[i].sock.sid = s
    /\ \A i \in DOMAIN emits :
           emits[i].st = "spawned" => ENABLED (EmitTaskOk(i) \/ EmitTaskErr(i))
    /\ hand.pc = "leave" => ENABLED HandlerLeave

\* C12, the case: emit_to had two recipients, the emit to one has failed, the
\* other recipient has its task all the same, and the handler has gone on.
EmitToBestEffortWitness ==
    /\ LastCallIs("echo") /\ hand.pc = "idle"
    /\ Cardinality(Recipients) = 2
    /\ \E i, j \in CallTasks(LastCall) :
          /\ emits[i].sock.sid # emits[j].sock.sid
          /\ emits[i].st = "err"
          /\ emits[j].st \in { "spawned", "ok" }

\* C13: emit_to_with_ack issues for each distinct recipient of the union
\* exactly one emit_with_ack, with the timeout of the call and a clone of cb
\* of its own; the event sent carries an ack id, and no two of them share a
\* socket and an ack id, so each recipient's ack resolves its own clone.
EmitToWithAckPerRecipient ==
    /\ LastCallIs("trigger_server_ack") =>
           /\ \A s \in Recipients :
                  /\ Cardinality({ i \in CallTasks(LastCall) : emits[i].sock.sid = s }) = 1
                  /\ \A i \in CallTasks(LastCall) :
                         emits[i].sock.sid = s =>
                             /\ emits[i].ack
                             /\ emits[i].timeout = hand.timeout
           /\ \A i, j \in CallTasks(LastCall) : i # j => emits[i].cb # emits[j].cb
    /\ \A i \in DOMAIN emits :
           (emits[i].ack /\ emits[i].st = "ok") =>
               /\ emits[i].id >= 0
               /\ \E k \in DOMAIN outbox[emits[i].sock.esid] :
                      LET p == outbox[emits[i].sock.esid][k]
                      IN  p.ptype = "EVENT" /\ p.data = emits[i].call /\ p.id = emits[i].id
               /\ \A j \in DOMAIN emits :
                      (j # i /\ emits[j].sock = emits[i].sock) => emits[j].id # emits[i].id

\* C13, the case: emit_to_with_ack had two recipients and both events have
\* left, each with an ack id.
EmitToWithAckWitness ==
    /\ LastCallIs("trigger_server_ack")
    /\ Cardinality(Recipients) = 2
    /\ Cardinality(CallTasks(LastCall)) = 2
    /\ \A i \in CallTasks(LastCall) : emits[i].st = "ok" /\ emits[i].id >= 0

\* the c-th handler run has got past its broadcast
PastBroadcast(c) == c < Len(hand.log) \/ (c = Len(hand.log) /\ hand.pc \in { "leave", "idle" })

\* C16: a handler that runs join(r); emit_to([r], e, d); leave(r) on a
\* session that stays open has exactly one emit of e scheduled to its own
\* socket, and e is sent to it no more than once.
EchoReceivedOnce ==
    \A c \in DOMAIN hand.log :
        (hand.log[c].kind = "echo" /\ PastBroadcast(c)
            /\ engine[hand.log[c].sock.esid] = "open") =>
            /\ Cardinality({ i \in CallTasks(c) : emits[i].sock = hand.log[c].sock }) = 1
            /\ Cardinality({ k \in DOMAIN outbox[hand.log[c].sock.esid] :
                               outbox[hand.log[c].sock.esid][k].ptype = "EVENT"
                               /\ outbox[hand.log[c].sock.esid][k].data = c }) <= 1

\* the members of room under nsp in the index rms, none when rms has no such
\* room
MembersIn(rms, nsp, room) ==
    IF nsp \in DOMAIN rms /\ room \in DOMAIN rms[nsp] THEN rms[nsp][room] ELSE {}

\* every room of the index rms, as << namespace, room >>
RoomsOf(rms) == UNION { { << n, r >> : r \in DOMAIN rms[n] } : n \in DOMAIN rms }

\* C14: when join(nsp, rooms, sid) completes, sid is a member of every listed
\* room, whether or not the namespace or the room was in the index before;
\* the index is the same when sid was in all of them already; no other sid
\* is added to or removed from a listed room, and every room not listed is
\* as it was, none removed and none created.
JoinPostcondition ==
    [][\A t \in CbTasks :
          LkJoinBody(t) =>
              LET nsp == lk.pc[t].h.nsp
                  sid == lk.pc[t].h.sid
                  listed == { << nsp, r >> : r \in Range(lk.pc[t].names) }
              IN  /\ \A k \in listed :
                         /\ k \in RoomsOf(rooms')
                         /\ MembersIn(rooms', k[1], k[2]) = MembersIn(rooms, k[1], k[2]) \cup { sid }
                  /\ RoomsOf(rooms') = RoomsOf(rooms) \cup listed
                  /\ \A k \in RoomsOf(rooms') \ listed :
                         MembersIn(rooms', k[1], k[2]) = MembersIn(rooms, k[1], k[2])
                  /\ (\A k \in listed : sid \in MembersIn(rooms, k[1], k[2])) => rooms' = rooms
      ]_vars

\* C14, the case: a join of two rooms has completed and changed the index,
\* one listed room holds another sid as well, and sid is in both.
JoinPostconditionWitness ==
    \E t \in CbTasks :
        /\ lk.pc[t].op = "join" /\ lk.pc[t].pc = "done" /\ lk.pc[t].changed
        /\ Len(lk.pc[t].names) = 2
        /\ \A r \in Range(lk.pc[t].names) :
               lk.pc[t].h.sid \in MembersIn(rooms, lk.pc[t].h.nsp, r)
        /\ \E r \in Range(lk.pc[t].names) :
               MembersIn(rooms, lk.pc[t].h.nsp, r) # { lk.pc[t].h.sid }

\* C15: when leave(nsp, rooms, sid) completes, sid is in none of the listed
\* rooms; the index holds the same rooms as before, a room whose last member
\* left as the empty set; every room has its members of before but sid in
\* the listed ones; and nothing changes when no listed room held sid (the
\* room or the namespace not being there included).
LeavePostcondition ==
    [][\A t \in CbTasks :
          LkLeaveBody(t) =>
              LET nsp == lk.pc[t].h.nsp
                  sid == lk.pc[t].h.sid
                  listed == { << nsp, r >> : r \in Range(lk.pc[t].names) }
              IN  /\ \A k \in listed : sid \notin MembersIn(rooms', k[1], k[2])
                  /\ RoomsOf(rooms') = RoomsOf(rooms)
                  /\ DOMAIN rooms' = DOMAIN rooms
                  /\ \A k \in RoomsOf(rooms) :
                         MembersIn(rooms', k[1], k[2]) =
                             IF k \in listed THEN MembersIn(rooms, k[1], k[2]) \ { sid }
                             ELSE MembersIn(rooms, k[1], k[2])
                  /\ (\A k \in listed : sid \notin MembersIn(rooms, k[1], k[2])) => rooms' = rooms
      ]_vars

\* C15, the case: a leave has completed and changed the index, and a listed
\* room is in the index as the empty set.
LeavePostconditionWitness ==
    \E t \in CbTasks :
        /\ lk.pc[t].op = "leave" /\ lk.pc[t].pc = "done" /\ lk.pc[t].changed
        /\ \E r \in Range(lk.pc[t].names) :
               /\ << lk.pc[t].h.nsp, r >> \in RoomsOf(rooms)
               /\ rooms[lk.pc[t].h.nsp][r] = {}

\* the locks task t holds a guard on
Holding(t) ==
    { "rooms" : g \in { g \in lk.rooms : g[1] = t } }
    \cup { "clients" : g \in { g \in lk.clients : g[1] = t } }

\* where a task stands between the grant of a guard and its drop
CriticalPcs ==
    { "body", "sids_body", "client_body", "pti_body", "ins_body", "rm_body",
      "retain_body" }

\* the step of task t that drops its guard
DropGuard(t) ==
    \/ LkJoinBody(t) \/ LkLeaveBody(t) \/ LkSidsBody(t) \/ LkClientBody(t)
    \/ (t = RecvTask /\ (LkPtiSome \/ LkPtiNone \/ LkInsertBody \/ LkRemoveBody \/ LkRetainBody))

\* C17: a task that holds a guard on the rooms lock or the clients lock holds
\* one guard only, stands in the code between the grant and the drop of that
\* guard (not in a callback, not in a network operation, not waiting for a
\* lock), and can drop it without waiting for anything: so no task ever
\* waits for a lock whose holder waits in turn.
LockDiscipline ==
    \A t \in LkTasks :
        Holding(t) # {} =>
            /\ Cardinality(Holding(t)) = 1
            /\ lk.pc[t].pc \in CriticalPcs
            /\ ENABLED DropGuard(t)

\* C17, the case: a callback holds the write guard on rooms inside join or
\* leave while the recv_event task holds the write guard on clients, and a
\* session is closing behind them.
LockDisciplineWitness ==
    /\ \E t \in CbTasks : << t, "write" >> \in lk.rooms
    /\ << RecvTask, "write" >> \in lk.clients
    /\ event_rx # << >>

\* C18: whatever query the url given to ClientPolling::new carries, the url
\* it stores has the query pair transport=polling; and for a url without
\* query it is the input followed by ?transport=polling.
UrlHasTransportPolling ==
    cp.built =>
        /\ \E i \in DOMAIN cp.url.query : cp.url.query[i] = << "transport", "polling" >>
        /\ cp.input.query = << >> =>
               UrlToString(cp.url) = UrlToString(cp.input) \o << "?", "transport", "=", "polling" >>

IsOk(e) == e.res = "Ok"

\* the emit calls that returned Ok, in the order they completed
OkEmits == SelectSeq(tr.emitted, IsOk)

\* every frame that has been on the send channel, in the order of the channel
SendHistory == tr.taken \o tr.send

YieldedFrames == [k \in DOMAIN tr.yielded |-> tr.yielded[k].frame]

\* C19: the k-th frame that came onto the send channel is that of the k-th
\* emit call that completed, and for a string payload it is the payload's
\* bytes unchanged, so that every such frame is there once and in the order of
\* completion; the frames next has yielded, followed by those still on the
\* recv channel, are the frames pushed into it, in the order pushed, each
\* once and unchanged, whether or not next was polled on the empty channel
\* before the frame came
PollingPreservesFrames ==
    /\ Len(SendHistory) = Len(OkEmits)
    /\ \A k \in DOMAIN OkEmits :
           /\ SendHistory[k] = OkEmits[k].data
           /\ OkEmits[k].payload.kind = "String" => SendHistory[k] = OkEmits[k].payload.data
    /\ YieldedFrames \o tr.recv = tr.pushed

\* every emit call has completed, two of them after waiting and not in the
\* order they were called, with the batch and another frame among them and
\* frames taken from the channel; next has yielded two frames, the batch
\* after it was polled on the empty channel
PollingPreservesFramesWitness ==
    /\ Len(OkEmits) = MaxFrames
    /\ \E j, k \in DOMAIN OkEmits :
           /\ j < k
           /\ OkEmits[j].waited /\ OkEmits[k].waited
           /\ OkEmits[j].id > OkEmits[k].id
    /\ \E j, k \in DOMAIN SendHistory :
           /\ SendHistory[j] = << 49, 72, 30, 49, 87 >>
           /\ SendHistory[k] = << 49, 72 >>
    /\ tr.taken # << >>
    /\ Len(tr.yielded) >= 2
    /\ \E k \in DOMAIN tr.yielded :
           /\ tr.yielded[k].waited
           /\ tr.yielded[k].frame = << 49, 72, 30, 49, 87 >>

WaitingIds == { tr.waiters[k].id : k \in DOMAIN tr.waiters }

EmittedIds == { tr.emitted[k].id : k \in DOMAIN tr.emitted }

Last(s) == s[Len(s)]

\* C20, as amended: an emit call fails only once the receiving half of the
\* send channel is closed, and no call is lost: it is suspended or has
\* completed; an emit called on the full, open channel is suspended and the
\* channel left as it is; a suspended emit is given its permit only by a
\* step that takes a frame from the channel, and completes only with that
\* permit or on the closed channel; when it completes on the open channel it
\* returns Ok and its frame is the last of the channel, behind all that were
\* there; and with frames being taken as long as there are some, every
\* suspended emit completes
EmitSuspendsWhenFull ==
    /\ [](/\ \A k \in DOMAIN tr.emitted : tr.emitted[k].res = "SendError" => tr.sendClosed
          /\ WaitingIds \cup EmittedIds = 1..tr.calls
          /\ WaitingIds \cap EmittedIds = {}
          /\ Len(tr.emitted) = Cardinality(EmittedIds))
    /\ [][tr'.calls # tr.calls /\ Len(tr.send) = Capacity /\ ~tr.sendClosed
              => /\ tr'.calls \in { w.id : w \in { tr'.waiters[k] : k \in DOMAIN tr'.waiters } }
                 /\ tr'.send = tr.send
                 /\ tr'.emitted = tr.emitted]_vars
    /\ [][\A k \in DOMAIN tr.waiters :
              LET w == tr.waiters[k]
                  after == { x \in { tr'.waiters[j] : j \in DOMAIN tr'.waiters } : x.id = w.id }
              IN  /\ (~w.granted /\ \E x \in after : x.granted)
                         => tr'.taken = Append(tr.taken, Head(tr.send))
                  /\ after = {}
                         => /\ w.granted \/ tr.sendClosed
                            /\ Last(tr'.emitted).id = w.id
                            /\ ~tr.sendClosed
                                   => /\ Last(tr'.emitted).res = "Ok"
                                      /\ tr'.send = Append(tr.send, w.data)]_vars
    /\ \A id \in EmitIds : (id \in WaitingIds) ~> (id \in EmittedIds)

\* an emit that was suspended on the full channel has returned Ok, its frame
\* is on the channel behind one enqueued earlier, the channel is full again
\* and another emit is still suspended
EmitSuspendsWhenFullWitness ==
    /\ ~tr.sendClosed
    /\ tr.emitted # << >>
    /\ Last(tr.emitted).waited
    /\ Last(tr.emitted).res = "Ok"
    /\ Len(tr.send) = Capacity
    /\ Last(tr.send) = Last(tr.emitted).data
    /\ tr.waiters # << >>

\* C20: an emit called on a full send channel does not fail: once it has
\* completed, it has returned Ok
EmitOnFullNeverFails ==
    \A k \in DOMAIN tr.emitted : tr.emitted[k].waited => tr.emitted[k].res = "Ok"

\* C30: drop_client(esid) leaves the sids minted for the other engine
\* sessions where they are: clients.remove(esid) takes none of their
\* entries out of clients, and the retain over the rooms takes none of them
\* out of a room.
DropClientFrame ==
    [][/\ (ev.pc = "recv" /\ ev'.pc = "drop_rooms")
              => \A s \in DOMAIN clients :
                     (\E i \in DOMAIN generated :
                          generated[i].sid = s /\ generated[i].esid # ev'.esid)
                         => s \in DOMAIN clients' /\ clients'[s] = clients[s]
       /\ (ev.pc = "drop_rooms" /\ ev'.pc # "drop_rooms")
              => \A i \in DOMAIN generated :
                     generated[i].esid # ev.esid
                         => \A n \in DOMAIN rooms : \A r \in DOMAIN rooms[n] :
                                generated[i].sid \in rooms[n][r]
                                    => generated[i].sid \in rooms'[n][r]]_vars

Registered(e) ==
    \E s \in DOMAIN clients : \E n \in DOMAIN clients[s] : clients[s][n].esid = e

\* C28: an engine session that is open and whose peer has sent, as its first
\* packet, CONNECT for a registered namespace is registered in clients after
\* a while, unless it is closed first, whatever the other sessions do or
\* fail to do.
AcceptanceLive ==
    \A e \in Esids :
        (/\ engine[e] = "open"
         /\ e \notin rejected
         /\ \A h \in sockets : h.esid # e
         /\ inbox[e] # << >> /\ Head(inbox[e]) = ConnectAdmin)
            ~> (Registered(e) \/ engine[e] # "open")

BroadcastOrderPerRecipient ==
    \A e \in Esids : \A i, j \in DOMAIN outbox[e] :
        (/\ i < j
         /\ outbox[e][i].ptype = "EVENT" /\ outbox[e][j].ptype = "EVENT"
         /\ hand.log[outbox[e][i].data].sock = hand.log[outbox[e][j].data].sock)
            => outbox[e][i].data <= outbox[e][j].data


\* the attempts of a reconnect episode: its calls of do_reconnect
Attempts(ep) == Len(ep.results)

\* C21: with max_reconnect_attempts given, one reconnect episode makes at
\* most that many attempts: with 0, do_reconnect is never called.
ReconnectAttemptsBounded ==
    cl.pc # "none" =>
        \A i \in 1..Len(cl.eps) :
            cl.builder.max_reconnect_attempts.some =>
                Attempts(cl.eps[i]) <= cl.builder.max_reconnect_attempts.n

\* a reconnect episode has ended with the attempts exceeded
EpisodeExceeded == \E i \in 1..Len(cl.eps) : cl.eps[i].ended = "exceeded"

\* C22: once the attempts of an episode are exceeded, the failure is
\* terminal: the receive pump stops, it polls no more and reconnects no more.
ReconnectFailedIsTerminal ==
    cl.pc # "none" =>
        (EpisodeExceeded => /\ cl.pc \in { "check", "stopped" }
                            /\ cl.eps[Len(cl.eps)].ended = "exceeded")

\* the delays of an episode grow from one failed attempt to the next
DelaysGrow(d) == \A k \in 1..Len(d) - 1 : d[k] <= d[k + 1]

\* C23: in every reconnect episode the first delay is reconnect_delay_min,
\* the delays grow, and none exceeds reconnect_delay_max.
BackoffWithinBounds ==
    cl.pc # "none" =>
        \A i \in 1..Len(cl.eps) :
            LET d == cl.eps[i].delays
            IN  /\ Len(d) > 0 => d[1] = cl.builder.reconnect_delay_min
                /\ DelaysGrow(d)
                /\ \A k \in 1..Len(d) : d[k] <= cl.builder.reconnect_delay_max


QuietAfterDisconnect ==
    cl.pc # "none" => ~cl.late_callback /\ ~cl.late_reconnect


\* the callback registered under id has been invoked once, with one of the
\* payloads, and its entry is gone; or it is pending and was never invoked
ResolvedOnce(id, payloads) ==
    \/ id \in ledger.pending /\ ledger.calls[id] = << >>
    \/ /\ id \notin ledger.pending
       /\ Len(ledger.calls[id]) = 1
       /\ ledger.calls[id][1] \in payloads

RegisteredSids(e) ==
    { generated[i].sid : i \in { j \in DOMAIN generated : generated[j].esid = e } }
        \cap DOMAIN clients

\* C31: when the recv_event task takes OnOpen for a session that has a
\* registered sid (and still has its engine socket), it reuses that sid: it
\* mints no sid, does not wait for a CONNECT packet and goes to
\* insert_clients without handshake; and once the session is registered
\* again clients holds exactly one entry for it, with exactly one namespace.
ReopenReusesSid ==
    [][/\ ( /\ ev.pc = "recv" /\ event_rx # << >>
            /\ Head(event_rx).type = "OnOpen"
            /\ EngineSocket(Head(event_rx).esid)
            /\ RegisteredSids(Head(event_rx).esid) # {}
            /\ event_rx' = Tail(event_rx) )
              => /\ seq' = seq /\ generated' = generated
                 /\ ev'.pc = "connect_callback"
                 /\ ev'.handshake = FALSE
                 /\ ev'.sid \in RegisteredSids(Head(event_rx).esid)
                 /\ ev'.nsp \in DOMAIN clients[ev'.sid]
       /\ (ev.pc = "register" /\ ev'.pc = "recv" /\ ~ev.handshake)
              => /\ Cardinality(RegisteredSids(ev.esid)') = 1
                 /\ \A s \in RegisteredSids(ev.esid)' :
                        Cardinality(DOMAIN clients'[s]) = 1]_vars


\* the disconnect calls that have invoked or are about to invoke the
\* socket's disconnect
DisconnectInvocations ==
    { c \in 1..MaxDisconnects : cl.calls[c] = "disconnect_socket" }
        \cup { cl.returned[i].call :
                   i \in { j \in 1..Len(cl.returned) : cl.returned[j].socket } }

\* C32: over any disconnect calls on clones of one Client, at once or one
\* after the other, at most one of them invokes the socket's disconnect;
\* every call that returns after another has returned has returned Ok(())
\* without touching the socket; and connected never goes back to true.
DisconnectIdempotent ==
    /\ [](cl.pc # "none" =>
            /\ Cardinality(DisconnectInvocations) <= 1
            /\ \A i \in 2..Len(cl.returned) : ~cl.returned[i].socket
            /\ cl.returned # << >> => ~cl.connected)
    /\ [][cl.pc # "none" /\ ~cl.connected => ~cl'.connected]_vars

\* two disconnect calls were waiting for the lock at once; both have
\* returned, the second without touching the socket, and the pump has
\* reconnected in between
DisconnectIdempotentWitness ==
    /\ Len(cl.returned) = 2
    /\ cl.returned[1].socket /\ ~cl.returned[2].socket
    /\ cl.socket.gen > 0


\* the last reconnect episode left the connection lost: reconnect is
\* disabled, or the allowed attempts have all failed
ConnectionLost ==
    /\ cl.pc # "none"
    /\ cl.eps # << >>
    /\ cl.eps[Len(cl.eps)].ended \in { "disabled", "exceeded" }
    /\ cl.pc \notin { "disconnect_socket", "reconnect", "do_reconnect" }

\* C33: once a recoverable error has left the connection lost (reconnect
\* disabled, or every allowed attempt failed), the receive task stops after
\* a while, unless a later episode brings the connection back.
PumpStopsWhenLost == ConnectionLost ~> (cl.pc = "stopped" \/ cl.socket.up)


\* the namespaces of the server-side sockets built for sid
NspOf(sid) == { h.nsp : h \in { g \in sockets : g.sid = sid } }

\* C34: emit_to and emit_to_with_ack never emit to a socket of another
\* namespace than the one they are called for, whatever the listed names
\* are, and a socket handle broadcasts in its own namespace: every emit task
\* spawned is for a socket registered under the namespace of the caller.
BroadcastStaysInNamespace ==
    /\ [](/\ \A i \in DOMAIN emits :
                 emits[i].sock.nsp = hand.log[emits[i].call].sock.nsp
          /\ bcast.pc # "idle" =>
                 /\ NspOf(bcast.by) = { bcast.nsp }
                 /\ \A s \in Range(bcast.spawned) : NspOf(s) = { bcast.nsp })
    /\ [][Len(bcast'.spawned) > Len(bcast.spawned)
              => /\ bcast.nsp \in DOMAIN clients[Last(bcast'.spawned)]
                 /\ clients[Last(bcast'.spawned)][bcast.nsp].nsp = bcast.nsp]_vars

\* a callback of a socket of one namespace has listed the sid of a socket
\* registered in the other namespace and a room that exists there with that
\* socket in it: the loop is over and nothing was spawned for it
BroadcastStaysInNamespaceWitness ==
    /\ bcast.pc = "loop" /\ DOMAIN bcast.todo = {}
    /\ \E s \in Range(bcast.names), r \in Range(bcast.names) :
          \E n \in DOMAIN rooms \ { bcast.nsp } :
              /\ HasClient(s, n)
              /\ r \in DOMAIN rooms[n] /\ s \in rooms[n][r]
              /\ s \notin Range(bcast.spawned)
    /\ bcast.by \in Range(bcast.spawned)

====
